---- MODULE Spec2Model ----
(***************************************************************************)
(* Verification model of the Meteora trending-pairs backend:               *)
(*   - PoolDataCache            (backend/pool_cache.py)                    *)
(*   - the automation queue     (backend/liquidity_monitoring_service.py,  *)
(*                               backend/liquidity_execution_service.py)   *)
(*   - MonitoringService        (backend/monitoring_service.py)            *)
(* Each subsystem has its own next-state relation and specification over   *)
(* the shared variable tuple; the variables of the other subsystems stay   *)
(* at their initial values.                                                *)
(***************************************************************************)
EXTENDS Integers, Sequences, FiniteSets

(***************************************************************************)
(* Optional values: Python's None against a present value.                 *)
(***************************************************************************)
None == [none |-> TRUE]
Some(x) == [v |-> x]

(***************************************************************************)
(*                       PoolDataCache (pool_cache.py)                     *)
(***************************************************************************)

\* Bounds of the cache model.
NumThreads == 2
MaxCalls == 3
MaxTime == 450
TimeStep == 150

\* Program constants of PoolDataCache._initialize.
cache_duration_seconds == 300
min_tvl == 100

Threads == 1..NumThreads

\* Pool records as the upstream returns them (the fields the cache reads).
PoolGoodA == [address |-> "A", hide |-> FALSE, is_blacklisted |-> FALSE, liquidity |-> 100]
PoolGoodB == [address |-> "B", hide |-> FALSE, is_blacklisted |-> FALSE, liquidity |-> 5000]
PoolHidden == [address |-> "H", hide |-> TRUE, is_blacklisted |-> FALSE, liquidity |-> 5000]
PoolBlack == [address |-> "X", hide |-> FALSE, is_blacklisted |-> TRUE, liquidity |-> 5000]
PoolLowTvl == [address |-> "L", hide |-> FALSE, is_blacklisted |-> FALSE, liquidity |-> 99]
PoolCatalogue == {PoolGoodA, PoolGoodB, PoolHidden, PoolBlack, PoolLowTvl}

\* The JSON arrays GET /pair/all may answer with: no pool, one pool that
\* passes, pools that are all filtered out, a mix.
RawResponses ==
    {<<>>, <<PoolGoodA>>, <<PoolHidden, PoolBlack, PoolLowTvl>>, <<PoolGoodB, PoolHidden, PoolGoodA>>}

VARIABLES
    pools_data,      \* PoolDataCache.pools_data: None or Some(list of pools)
    last_fetch,      \* PoolDataCache.last_fetch: None or Some(time)
    fetch_lock,      \* holder of PoolDataCache.fetch_lock: 0 (free) or a thread
    stats,           \* PoolDataCache.stats
    clock,           \* datetime.utcnow(), in seconds
    pc,              \* per thread: position inside get_pools/_fetch_fresh_data
    now,             \* per thread: the local `now` of get_pools
    force_refresh,   \* per thread: the argument of get_pools
    filtered,        \* per thread: locals (filtered_pools, filter_stats) of _fetch_fresh_data
    result,          \* per thread: what the last get_pools call returned or raised
    calls,           \* number of get_pools calls made so far
    cold,            \* history: the call began while the cache held no data
    fresh_call,      \* history: the call began with force_refresh=False on a fresh cache
    issued,          \* history: the call issued an upstream request
    fetch_failed,    \* history: the call's request failed: "no", "with_previous", "without_previous"
    upstream_calls,  \* history: number of GET /pair/all requests issued
    upstream_failed  \* history: some upstream request has failed

cacheVars == <<pools_data, last_fetch, fetch_lock, stats, clock, pc, now, force_refresh,
               filtered, result, calls, cold, fresh_call, issued, fetch_failed,
               upstream_calls, upstream_failed>>

VARIABLES
    positions,     \* liquidity_positions rows: position -> [status, fees_earned_usd, last_compound_at]
    rules,         \* position_automation_rules rows: position -> None or Some(rules)
    automation,    \* automation_configs row of the wallet: "absent", "enabled", "disabled"
    queue,         \* position_monitoring_queue: a set of rows
    transactions,  \* liquidity_transactions: position -> number of rows
    hours,         \* datetime.utcnow() / NOW(), in hours
    todo,          \* per producer job: the rows its query returned and it has still to handle
    wpc,           \* per worker: position inside _process_queue
    wrows,         \* per worker: pending_actions still to handle
    passes,        \* number of _process_queue passes started
    enqueues,      \* number of _queue_action calls made
    last_enqueue,  \* history: the last _queue_action call: position, action, action of a pending row it replaced
    claim_count,   \* history: pending->processing updates of the position's entry since its last enqueue
    exec_count     \* history: handler invocations for the position since its last enqueue

queueVars == <<positions, rules, automation, queue, transactions, hours, todo, wpc, wrows,
               passes, enqueues, last_enqueue, claim_count, exec_count>>

VARIABLES
    users,          \* users rows: wallet -> the wallet has a linked Telegram user
    configs,        \* monitoring_configs rows: wallet -> None or Some(config)
    snapshots,      \* opportunity_snapshots rows per wallet, oldest first
    jobs,           \* scheduler: wallet -> the job monitor_<wallet> is scheduled
    stopping,       \* wallet -> a stop_monitoring call is between its commit and the job removal
    ticks,          \* per execution slot: one run of _check_opportunities and its locals
    minutes,        \* datetime.utcnow(), in minutes
    ticks_started   \* number of _check_opportunities runs started

monVars == <<users, configs, snapshots, jobs, stopping, ticks, minutes, ticks_started>>

VARIABLES
    scheduler_jobs, \* the scheduler's job store: the monitor jobs, [id, minutes]
    api             \* the lifecycle call in progress and its answer

apiVars == <<scheduler_jobs, api>>

VARIABLES
    diff            \* a pair of _find_new_opportunities calls: arguments and results

VARIABLES
    check           \* one _monitor_all_positions cycle: rules, fetched data, _queue_action calls

VARIABLES
    load            \* one load_active_monitors call: the configs it reads, the jobs it adds

VARIABLES
    notify          \* one notification round of a tick: the diff's result and the messages handed to the bot

VARIABLES
    sweep           \* the opportunity_snapshots table under the hourly cleanup and the ticks' inserts

VARIABLES
    analysis        \* one call of analyze_opportunities: candidates, current positions, answer

VARIABLES
    starting        \* one start_monitoring call: the wallet's user, config and job, the call's answer

VARIABLES
    degen           \* degen monitoring of one wallet: the stored last_notified_pools, the clock, the tick in progress

VARIABLES
    pass            \* one _process_queue pass: the tables it reads and writes, its position

VARIABLES
    groups_data,        \* GroupedPoolCache.groups_data: None or Some(list of groups)
    groups_last_fetch,  \* GroupedPoolCache.groups_last_fetch: None or Some(time)
    groups_fetch_lock,  \* holder of groups_fetch_lock: 0 (free) or a thread
    pools_cache,        \* pools_cache: group id -> None (no key) or Some([data, last_fetch])
    pools_fetch_locks,  \* pools_fetch_locks: group id -> 0 (no key) or the lock object, named by its creator
    lock_holder,        \* per group id and lock object: 0 (free) or the thread holding it
    gclock,             \* datetime.utcnow(), in seconds
    gcalls,             \* number of get_pools calls made so far
    gthreads            \* per thread: position inside get_pools, its locals, its result

groupVars == <<groups_data, groups_last_fetch, groups_fetch_lock, pools_cache,
               pools_fetch_locks, lock_holder, gclock, gcalls, gthreads>>

\* The variables an action of one subsystem leaves alone.
notCache == <<queueVars, monVars, apiVars, diff, check, pass, groupVars, load, notify, sweep, analysis, starting, degen>>
notQueue == <<cacheVars, monVars, apiVars, diff, check, pass, groupVars, load, notify, sweep, analysis, starting, degen>>
notMon == <<cacheVars, queueVars, apiVars, diff, check, pass, groupVars, load, notify, sweep, analysis, starting, degen>>
notApi == <<cacheVars, queueVars, diff, check, pass, groupVars, load, notify, sweep, analysis, starting, degen>>
notDiff == <<cacheVars, queueVars, monVars, apiVars, check, pass, groupVars, load, notify, sweep, analysis, starting, degen>>
notCheck == <<cacheVars, queueVars, monVars, apiVars, diff, pass, groupVars, load, notify, sweep, analysis, starting, degen>>
notGroup == <<cacheVars, queueVars, monVars, apiVars, diff, check, pass, load, notify, sweep, analysis, starting, degen>>
notPass == <<cacheVars, queueVars, monVars, apiVars, diff, check, groupVars, load, notify, sweep, analysis, starting, degen>>
notDegen == <<cacheVars, queueVars, monVars, apiVars, diff, check, pass, groupVars, load, notify, sweep, analysis, starting>>
notStarting == <<cacheVars, queueVars, monVars, apiVars, diff, check, pass, groupVars, load, notify, sweep, analysis, degen>>
notAnalysis == <<cacheVars, queueVars, monVars, apiVars, diff, check, pass, groupVars, load, notify, sweep, starting, degen>>
notSweep == <<cacheVars, queueVars, monVars, apiVars, diff, check, pass, groupVars, load, notify, analysis, starting, degen>>
notNotify == <<cacheVars, queueVars, monVars, apiVars, diff, check, pass, groupVars, load, sweep, analysis, starting, degen>>
notLoad == <<cacheVars, queueVars, monVars, apiVars, diff, check, pass, groupVars, notify, sweep, analysis, starting, degen>>

\* The cache holds data younger than the TTL (the specification's "fresh").
CacheAgeBelowTTL ==
    /\ pools_data # None
    /\ last_fetch # None
    /\ clock - last_fetch.v < cache_duration_seconds

\* Python truthiness of self.pools_data (None and [] are falsy).
Truthy(opt) == opt # None /\ Len(opt.v) > 0

\* PoolDataCache._is_cache_fresh
IsCacheFreshInverted(t) ==
    IF pools_data = None \/ last_fetch = None THEN FALSE
    ELSE (t - last_fetch.v) > cache_duration_seconds

IsCacheFresh(t) ==
    IF pools_data = None \/ last_fetch = None THEN FALSE
    ELSE (t - last_fetch.v) < cache_duration_seconds

\* _filter_pools without its minimum-TVL check.
FilterReasonWithoutTvl(pool) ==
    IF pool.hide THEN "hidden"
    ELSE IF pool.is_blacklisted THEN "blacklisted"
    ELSE "keep"

\* One pool against the three filters of _filter_pools, in the code's order.
FilterReason(pool) ==
    IF pool.hide THEN "hidden"
    ELSE IF pool.is_blacklisted THEN "blacklisted"
    ELSE IF pool.liquidity < min_tvl THEN "low_tvl"
    ELSE "keep"

RECURSIVE KeepPools(_)
KeepPools(raw) ==
    IF raw = <<>> THEN <<>>
    ELSE IF FilterReason(Head(raw)) = "keep"
         THEN <<Head(raw)>> \o KeepPools(Tail(raw))
         ELSE KeepPools(Tail(raw))

CountReason(raw, reason) ==
    Cardinality({i \in 1..Len(raw) : FilterReason(raw[i]) = reason})

\* PoolDataCache._filter_pools: (filtered_pools, filter_stats). An empty input
\* is returned as it is, with an empty filter_stats dict.
FilterPools(raw) ==
    IF raw = <<>>
    THEN [pools |-> raw, has_stats |-> FALSE,
          hidden_count |-> 0, blacklisted_count |-> 0, low_tvl_count |-> 0, total_filtered |-> 0]
    ELSE [pools |-> KeepPools(raw), has_stats |-> TRUE,
          hidden_count |-> CountReason(raw, "hidden"),
          blacklisted_count |-> CountReason(raw, "blacklisted"),
          low_tvl_count |-> CountReason(raw, "low_tvl"),
          total_filtered |-> Len(raw) - Len(KeepPools(raw))]

NoFiltered == FilterPools(<<>>)

Returned(list) == [kind |-> "return", value |-> list, exc |-> ""]
Raised(e) == [kind |-> "raise", value |-> None, exc |-> e]
NoResult == [kind |-> "none", value |-> None, exc |-> ""]

InitStats ==
    [cache_hits |-> 0, cache_misses |-> 0, total_pools_raw |-> 0,
     total_pools_filtered |-> 0, pools_filtered_out |-> 0, hidden_filtered |-> 0,
     blacklisted_filtered |-> 0, low_tvl_filtered |-> 0]

CacheInit ==
    /\ pools_data = None
    /\ last_fetch = None
    /\ fetch_lock = 0
    /\ stats = InitStats
    /\ clock = 0
    /\ pc = [t \in Threads |-> "idle"]
    /\ now = [t \in Threads |-> 0]
    /\ force_refresh = [t \in Threads |-> FALSE]
    /\ filtered = [t \in Threads |-> NoFiltered]
    /\ result = [t \in Threads |-> NoResult]
    /\ calls = 0
    /\ cold = [t \in Threads |-> FALSE]
    /\ fresh_call = [t \in Threads |-> FALSE]
    /\ issued = [t \in Threads |-> FALSE]
    /\ fetch_failed = [t \in Threads |-> "no"]
    /\ upstream_calls = 0
    /\ upstream_failed = FALSE

\* get_pools, line 68: a thread enters and reads the clock.
GetPools(t, force) ==
    /\ pc[t] = "idle"
    /\ calls < MaxCalls
    /\ calls' = calls + 1
    /\ now' = [now EXCEPT ![t] = clock]
    /\ force_refresh' = [force_refresh EXCEPT ![t] = force]
    /\ result' = [result EXCEPT ![t] = NoResult]
    /\ cold' = [cold EXCEPT ![t] = (pools_data = None)]
    /\ fresh_call' = [fresh_call EXCEPT ![t] = (~force /\ CacheAgeBelowTTL)]
    /\ issued' = [issued EXCEPT ![t] = FALSE]
    /\ fetch_failed' = [fetch_failed EXCEPT ![t] = "no"]
    /\ pc' = [pc EXCEPT ![t] = "check"]
    /\ UNCHANGED <<notCache, pools_data, last_fetch, fetch_lock, stats, clock, filtered,
                   upstream_calls, upstream_failed>>

\* get_pools, lines 71-72: the unlocked freshness check.
CheckFresh(t) ==
    /\ pc[t] = "check"
    /\ IF ~force_refresh[t] /\ IsCacheFresh(now[t])
       THEN /\ stats' = [stats EXCEPT !.cache_hits = @ + 1]
            /\ pc' = [pc EXCEPT ![t] = "hit"]
       ELSE /\ pc' = [pc EXCEPT ![t] = "acquire"]
            /\ UNCHANGED stats
    /\ UNCHANGED <<notCache, fetch_failed, pools_data, last_fetch, fetch_lock, clock, now, force_refresh, filtered,
                   result, calls, cold, fresh_call, issued, upstream_calls,
                   upstream_failed>>

\* get_pools, line 75: return self.pools_data on a hit.
ReturnHit(t) ==
    /\ pc[t] = "hit"
    /\ result' = [result EXCEPT ![t] = Returned(pools_data)]
    /\ pc' = [pc EXCEPT ![t] = "done"]
    /\ UNCHANGED <<notCache, fetch_failed, pools_data, last_fetch, fetch_lock, stats, clock, now, force_refresh,
                   filtered, calls, cold, fresh_call, issued, upstream_calls,
                   upstream_failed>>

\* _fetch_fresh_data, line 157: with self.fetch_lock.
AcquireLock(t) ==
    /\ pc[t] = "acquire"
    /\ fetch_lock = 0
    /\ fetch_lock' = t
    /\ pc' = [pc EXCEPT ![t] = "locked"]
    /\ UNCHANGED <<notCache, fetch_failed, pools_data, last_fetch, stats, clock, now, force_refresh, filtered,
                   result, calls, cold, fresh_call, issued, upstream_calls,
                   upstream_failed>>

\* _fetch_fresh_data, lines 159-169: the double check under the lock; on a miss
\* the request to the upstream is sent.
DoubleCheck(t) ==
    /\ pc[t] = "locked"
    /\ IF IsCacheFresh(now[t])
       THEN /\ stats' = [stats EXCEPT !.cache_hits = @ + 1]
            /\ result' = [result EXCEPT ![t] = Returned(pools_data)]
            /\ fetch_lock' = 0
            /\ pc' = [pc EXCEPT ![t] = "done"]
            /\ UNCHANGED <<issued, upstream_calls>>
       ELSE /\ stats' = [stats EXCEPT !.cache_misses = @ + 1]
            /\ issued' = [issued EXCEPT ![t] = TRUE]
            /\ upstream_calls' = upstream_calls + 1
            /\ pc' = [pc EXCEPT ![t] = "request"]
            /\ UNCHANGED <<result, fetch_lock>>
    /\ UNCHANGED <<notCache, fetch_failed, pools_data, last_fetch, clock, now, force_refresh, filtered, calls, cold,
                   fresh_call, upstream_failed>>

\* _fetch_fresh_data, lines 173-181: the upstream answers 200 with `raw`; the
\* list is filtered and stored.
FetchSucceeds(t, raw) ==
    /\ pc[t] = "request"
    /\ stats' = [stats EXCEPT !.total_pools_raw = Len(raw)]
    /\ filtered' = [filtered EXCEPT ![t] = FilterPools(raw)]
    /\ pools_data' = Some(FilterPools(raw).pools)
    /\ pc' = [pc EXCEPT ![t] = "store"]
    /\ UNCHANGED <<notCache, fetch_failed, last_fetch, fetch_lock, clock, now, force_refresh, result,
                   calls, cold, fresh_call, issued, upstream_calls, upstream_failed>>

\* _fetch_fresh_data, lines 182-196: the timestamp and the statistics (the
\* wall-clock stat last_fetch_duration, which nothing reads, is left out). The
\* lookup filter_stats['total_filtered'] raises KeyError on the empty dict that
\* _filter_pools returns for an empty list; the lock is released either way.
StoreFetch(t) ==
    /\ pc[t] = "store"
    /\ last_fetch' = Some(now[t])
    /\ IF filtered[t].has_stats
       THEN /\ stats' = [stats EXCEPT
                           !.total_pools_filtered = Len(filtered[t].pools),
                           !.pools_filtered_out = filtered[t].total_filtered,
                           !.hidden_filtered = filtered[t].hidden_count,
                           !.blacklisted_filtered = filtered[t].blacklisted_count,
                           !.low_tvl_filtered = filtered[t].low_tvl_count]
            /\ result' = [result EXCEPT ![t] = Returned(pools_data)]
       ELSE /\ stats' = [stats EXCEPT !.total_pools_filtered = Len(filtered[t].pools)]
            /\ result' = [result EXCEPT ![t] = Raised("KeyError")]
    /\ fetch_lock' = 0
    /\ pc' = [pc EXCEPT ![t] = "done"]
    /\ UNCHANGED <<notCache, fetch_failed, pools_data, clock, now, force_refresh, filtered, calls,
                   cold, fresh_call, issued, upstream_calls, upstream_failed>>

\* _fetch_fresh_data, lines 198-206: requests.RequestException (connection
\* error, timeout, HTTP error status).
FetchFails(t) ==
    /\ pc[t] = "request"
    /\ upstream_failed' = TRUE
    /\ fetch_failed' = [fetch_failed EXCEPT ![t] =
                          IF pools_data # None THEN "with_previous" ELSE "without_previous"]
    /\ result' = [result EXCEPT ![t] =
                    IF Truthy(pools_data) THEN Returned(pools_data)
                    ELSE Raised("RequestException")]
    /\ fetch_lock' = 0
    /\ pc' = [pc EXCEPT ![t] = "done"]
    /\ UNCHANGED <<notCache, pools_data, last_fetch, stats, clock, now, force_refresh, filtered,
                   calls, cold, fresh_call, issued, upstream_calls>>

\* The caller takes the result; the thread is free for the next call.
CallReturns(t) ==
    /\ pc[t] = "done"
    /\ pc' = [pc EXCEPT ![t] = "idle"]
    /\ UNCHANGED <<notCache, fetch_failed, pools_data, last_fetch, fetch_lock, stats, clock, now, force_refresh,
                   filtered, result, calls, cold, fresh_call, issued,
                   upstream_calls, upstream_failed>>

\* Time passes.
ClockTick ==
    /\ clock + TimeStep <= MaxTime
    /\ clock' = clock + TimeStep
    /\ UNCHANGED <<notCache, fetch_failed, pools_data, last_fetch, fetch_lock, stats, pc, now, force_refresh,
                   filtered, result, calls, cold, fresh_call, issued,
                   upstream_calls, upstream_failed>>


(***************************************************************************)
(*   Automation queue: LiquidityMonitoringService (producers) and          *)
(*   LiquidityExecutionService (consumer) over position_monitoring_queue   *)
(***************************************************************************)

\* Assumption of this section: every attribute the services read on a
\* LiquidityPosition resolves.  The class in models.py has no columns
\* current_value_usd, liquidity_usd, last_compound_at or opened_at, so with
\* that class _check_position raises AttributeError at line 123 and
\* _check_compound_schedules at line 182, and the producers enqueue nothing;
\* the model follows the control flow the services are written for.

\* Bounds of the queue model.
NumPositions == 2
NumWorkers == 2
MaxEnqueues == 2
MaxPasses == 2
MaxHours == 1

\* LIMIT of the worker's SELECT (liquidity_execution_service.py line 101).
QueueBatchLimit == 10
\* `rules.compound_min_threshold_usd or 10.0` (liquidity_monitoring_service.py line 188).
DefaultCompoundThreshold == 10

Positions == 1..NumPositions
Workers == 1..NumWorkers
ProducerJobs == {"monitor", "compound"}
ActionTypes == {"take_profit", "stop_loss", "compound", "rebalance"}

\* What the Meteora microservice reports for a position (get_position_data):
\* None, or the current value and the accrued fees in USD.
PositionDataValues ==
    {None, Some([valueUSD |-> 120, feesUSD |-> 0]), Some([valueUSD |-> 80, feesUSD |-> 0]),
     Some([valueUSD |-> 100, feesUSD |-> 10]), Some([valueUSD |-> 100, feesUSD |-> 0])}

\* PositionAutomationRules rows a position may carry.
RulesTpSlRebalance ==
    [take_profit_enabled |-> TRUE, take_profit_type |-> "percentage", take_profit_value |-> 20,
     stop_loss_enabled |-> TRUE, stop_loss_type |-> "percentage", stop_loss_value |-> -20,
     auto_compound_enabled |-> FALSE, compound_frequency_hours |-> 1,
     compound_min_threshold_usd |-> 0,
     rebalancing_enabled |-> TRUE,
     rebalance_triggers |-> <<[type |-> "price_drift", value |-> 10],
                              [type |-> "fee_threshold", value |-> 10]>>]
RulesOverlapCompound ==
    [take_profit_enabled |-> TRUE, take_profit_type |-> "percentage", take_profit_value |-> 30,
     stop_loss_enabled |-> TRUE, stop_loss_type |-> "percentage", stop_loss_value |-> 30,
     auto_compound_enabled |-> TRUE, compound_frequency_hours |-> 1,
     compound_min_threshold_usd |-> 0,
     rebalancing_enabled |-> FALSE,
     rebalance_triggers |-> <<>>]
\* The rules rows at the start: every position with take-profit, stop-loss and
\* rebalancing, or the positions alternating between the two rule sets.
RuleChoices ==
    {[p \in Positions |-> Some(RulesTpSlRebalance)],
     [p \in Positions |-> IF p % 2 = 1 THEN Some(RulesOverlapCompound) ELSE None]}

QueueInit ==
    /\ positions = [p \in Positions |->
                      [status |-> "active", liquidity_usd |-> 100, fees_earned_usd |-> 0,
                       last_compound_at |-> None]]
    /\ rules \in RuleChoices
    /\ automation = "absent"
    /\ queue = {}
    /\ transactions = [p \in Positions |-> 0]
    /\ hours = 0
    /\ todo = [j \in ProducerJobs |-> <<>>]
    /\ wpc = [w \in Workers |-> "idle"]
    /\ wrows = [w \in Workers |-> <<>>]
    /\ passes = 0
    /\ enqueues = 0
    /\ last_enqueue = None
    /\ claim_count = [p \in Positions |-> 0]
    /\ exec_count = [p \in Positions |-> 0]

RowsOf(q, p) == {r \in q : r.position_address = p}

NewRow(p, action, t) ==
    [position_address |-> p, action_type |-> action, status |-> "pending",
     created_at |-> t, error_message |-> ""]

\* The statement of _queue_action without its ON CONFLICT clause.
QueueActionInsertOnly(q, p, action, t) == q \cup {NewRow(p, action, t)}

\* LiquidityMonitoringService._queue_action: INSERT ... ON CONFLICT
\* (position_address) DO UPDATE SET action_type, status = 'pending', created_at.
QueueAction(q, p, action, t) ==
    IF RowsOf(q, p) = {}
    THEN q \cup {NewRow(p, action, t)}
    ELSE {IF r.position_address = p
          THEN [r EXCEPT !.action_type = action, !.status = "pending", !.created_at = t]
          ELSE r : r \in q}

\* UPDATE position_monitoring_queue SET status = ... WHERE position_address = p
SetStatus(q, p, st) ==
    {IF r.position_address = p THEN [r EXCEPT !.status = st] ELSE r : r \in q}

\* _process_queue, lines 117-122: UPDATE ... SET status = 'processing'
\* WHERE position_address = p.
MarkProcessing(q, p) == SetStatus(q, p, "processing")

\* LiquidityExecutionService._mark_failed
MarkFailed(q, p, message) ==
    {IF r.position_address = p
     THEN [r EXCEPT !.status = "failed", !.error_message = message]
     ELSE r : r \in q}

\* ORDER BY created_at ASC (ties in position order) LIMIT n, as a sequence.
RECURSIVE OrderedRows(_, _)
OrderedRows(rows, n) ==
    IF rows = {} \/ n = 0 THEN <<>>
    ELSE LET first == CHOOSE r \in rows :
                        \A o \in rows :
                            \/ r.created_at < o.created_at
                            \/ /\ r.created_at = o.created_at
                               /\ r.position_address <= o.position_address
         IN <<[position_address |-> first.position_address,
               action_type |-> first.action_type]>>
            \o OrderedRows(rows \ {first}, n - 1)

\* _process_queue, lines 96-104: SELECT ... WHERE status = 'pending'.
PendingActions(q) == OrderedRows({r \in q : r.status = "pending"}, QueueBatchLimit)

\* _check_position, lines 128-132.
ProfitPercentage(position, data) ==
    LET initial_value == position.liquidity_usd
        current_value == IF data.valueUSD = 0 THEN initial_value ELSE data.valueUSD
        total_value == current_value + data.feesUSD
    IN IF initial_value > 0
       THEN ((total_value - initial_value) * 100) \div initial_value
       ELSE 0

\* LiquidityMonitoringService._check_rebalance_triggers
RECURSIVE CheckRebalanceTriggers(_, _)
CheckRebalanceTriggers(fees_usd, triggers) ==
    IF triggers = <<>> THEN FALSE
    ELSE IF Head(triggers).type = "fee_threshold" /\ fees_usd >= Head(triggers).value
         THEN TRUE
         ELSE CheckRebalanceTriggers(fees_usd, Tail(triggers))

\* _check_position, lines 141-161: the action the rules select, or "none".
TriggeredAction(r, profit_percentage, fees_usd) ==
    IF r.take_profit_enabled /\ r.take_profit_type = "percentage"
          /\ profit_percentage >= r.take_profit_value
    THEN "take_profit"
    ELSE IF r.stop_loss_enabled /\ r.stop_loss_type = "percentage"
               /\ profit_percentage <= r.stop_loss_value
    THEN "stop_loss"
    ELSE IF r.rebalancing_enabled /\ r.rebalance_triggers # <<>>
               /\ CheckRebalanceTriggers(fees_usd, r.rebalance_triggers)
    THEN "rebalance"
    ELSE "none"

\* History of a _queue_action call: the action type of the pending row it
\* found for the position, "" when it found none.
EnqueueRecord(p, action) ==
    LET pend == {r \in RowsOf(queue, p) : r.status = "pending"}
    IN Some([position_address |-> p, action_type |-> action,
             replaced |-> IF pend = {} THEN "" ELSE (CHOOSE r \in pend : TRUE).action_type])

RECURSIVE SeqOfSet(_)
SeqOfSet(S) ==
    IF S = {} THEN <<>>
    ELSE LET m == CHOOSE x \in S : \A y \in S : x <= y
         IN <<m>> \o SeqOfSet(S \ {m})

\* _monitor_all_positions, lines 75-77: the query for the active positions.
MonitorStart ==
    /\ todo["monitor"] = <<>>
    /\ enqueues < MaxEnqueues
    /\ \E p \in Positions : positions[p].status = "active"
    /\ todo' = [todo EXCEPT !["monitor"] =
                  SeqOfSet({p \in Positions : positions[p].status = "active"})]
    /\ UNCHANGED <<notQueue, positions, rules, automation, queue, transactions, hours, wpc, wrows,
                   passes, enqueues, last_enqueue, claim_count, exec_count>>

\* _monitor_all_positions, lines 81-85, with _check_position for the next
\* position of the loop. `data` is what _fetch_position_data returns.
CheckPosition(data) ==
    /\ todo["monitor"] # <<>>
    /\ LET p == Head(todo["monitor"])
           ret == \/ rules[p] = None
                  \/ automation = "disabled"
                  \/ data = None
           action == IF ret THEN "none"
                     ELSE TriggeredAction(rules[p].v, ProfitPercentage(positions[p], data.v), data.v.feesUSD)
       IN /\ todo' = [todo EXCEPT !["monitor"] = Tail(@)]
          /\ positions' = IF ret THEN positions
                          ELSE [positions EXCEPT ![p].fees_earned_usd = data.v.feesUSD]
          /\ IF action # "none" /\ enqueues < MaxEnqueues
             THEN /\ queue' = QueueAction(queue, p, action, hours)
                  /\ enqueues' = enqueues + 1
                  /\ last_enqueue' = EnqueueRecord(p, action)
                  /\ claim_count' = [claim_count EXCEPT ![p] = 0]
                  /\ exec_count' = [exec_count EXCEPT ![p] = 0]
             ELSE UNCHANGED <<queue, enqueues, last_enqueue, claim_count, exec_count>>
    /\ UNCHANGED <<notQueue, rules, automation, transactions, hours, wpc, wrows, passes>>

\* _check_compound_schedules, lines 170-178: the joined query.
CompoundStart ==
    /\ todo["compound"] = <<>>
    /\ enqueues < MaxEnqueues
    /\ LET due == {p \in Positions :
                     /\ positions[p].status = "active"
                     /\ rules[p] # None
                     /\ rules[p].v.auto_compound_enabled}
       IN /\ due # {}
          /\ todo' = [todo EXCEPT !["compound"] = SeqOfSet(due)]
    /\ UNCHANGED <<notQueue, positions, rules, automation, queue, transactions, hours, wpc, wrows,
                   passes, enqueues, last_enqueue, claim_count, exec_count>>

\* _check_compound_schedules, lines 180-194, with _execute_compound (lines
\* 287-296) for the next position of the loop. Positions open at hour 0.
CheckCompound ==
    /\ todo["compound"] # <<>>
    /\ LET p == Head(todo["compound"])
           r == rules[p].v
           last_compound == IF positions[p].last_compound_at # None
                            THEN positions[p].last_compound_at.v ELSE 0
           min_threshold == IF r.compound_min_threshold_usd = 0
                            THEN DefaultCompoundThreshold
                            ELSE r.compound_min_threshold_usd
           fire == /\ hours - last_compound >= r.compound_frequency_hours
                   /\ positions[p].fees_earned_usd >= min_threshold
       IN /\ todo' = [todo EXCEPT !["compound"] = Tail(@)]
          /\ IF fire /\ enqueues < MaxEnqueues
             THEN /\ queue' = QueueAction(queue, p, "compound", hours)
                  /\ positions' = [positions EXCEPT ![p].last_compound_at = Some(hours)]
                  /\ enqueues' = enqueues + 1
                  /\ last_enqueue' = EnqueueRecord(p, "compound")
                  /\ claim_count' = [claim_count EXCEPT ![p] = 0]
                  /\ exec_count' = [exec_count EXCEPT ![p] = 0]
             ELSE UNCHANGED <<queue, positions, enqueues, last_enqueue, claim_count,
                              exec_count>>
    /\ UNCHANGED <<notQueue, rules, automation, transactions, hours, wpc, wrows, passes>>

\* PUT /automation/config (liquidity_routes.py update_automation_config).
UpdateAutomationConfig(enabled) ==
    /\ automation # (IF enabled THEN "enabled" ELSE "disabled")
    /\ automation' = IF enabled THEN "enabled" ELSE "disabled"
    /\ UNCHANGED <<notQueue, positions, rules, queue, transactions, hours, todo, wpc, wrows, passes,
                   enqueues, last_enqueue, claim_count, exec_count>>

\* _process_queue, lines 93-109: a pass starts and reads the pending entries.
SelectPending(w) ==
    /\ wpc[w] = "idle"
    /\ passes < MaxPasses
    /\ PendingActions(queue) # <<>>
    /\ passes' = passes + 1
    /\ wrows' = [wrows EXCEPT ![w] = PendingActions(queue)]
    /\ wpc' = [wpc EXCEPT ![w] = "mark"]
    /\ UNCHANGED <<notQueue, positions, rules, automation, queue, transactions, hours, todo,
                   enqueues, last_enqueue, claim_count, exec_count>>

\* _process_queue, lines 111-122: the next row is marked as processing.
ClaimEntry(w) ==
    /\ wpc[w] = "mark"
    /\ LET p == Head(wrows[w]).position_address
       IN /\ queue' = MarkProcessing(queue, p)
          /\ claim_count' = [claim_count EXCEPT ![p] = @ + 1]
    /\ wpc' = [wpc EXCEPT ![w] = "execute"]
    /\ UNCHANGED <<notQueue, positions, rules, automation, transactions, hours, todo, wrows, passes,
                   enqueues, last_enqueue, exec_count>>

\* After a row: the loop goes on with the next row or the pass ends.
AfterRow(w) ==
    /\ wrows' = [wrows EXCEPT ![w] = Tail(@)]
    /\ wpc' = [wpc EXCEPT ![w] = IF Tail(wrows[w]) = <<>> THEN "idle" ELSE "mark"]

\* The effect of a handler that completes, by action type:
\* _execute_close_position (lines 175-204), _execute_compound (lines 238-266),
\* _execute_rebalance (lines 323-360).
HandlerEffect(pos, action, t) ==
    IF action \in {"take_profit", "stop_loss"}
    THEN [pos EXCEPT !.status = "closed"]
    ELSE IF action = "compound"
    THEN [pos EXCEPT !.last_compound_at = Some(t), !.fees_earned_usd = 0]
    ELSE pos

\* _process_queue, lines 124-140, the handler runs to its commit: the
\* execution provider returns, the position is updated, a transaction row is
\* added and the entry is marked completed, in one commit.
ExecuteSucceeds(w) ==
    /\ wpc[w] = "execute"
    /\ LET p == Head(wrows[w]).position_address
           action == Head(wrows[w]).action_type
       IN /\ action \in ActionTypes
          /\ positions' = [positions EXCEPT ![p] = HandlerEffect(@, action, hours)]
          /\ transactions' = [transactions EXCEPT ![p] = @ + 1]
          /\ queue' = SetStatus(queue, p, "completed")
          /\ exec_count' = [exec_count EXCEPT ![p] = @ + 1]
    /\ AfterRow(w)
    /\ UNCHANGED <<notQueue, rules, automation, hours, todo, passes, enqueues, last_enqueue,
                   claim_count>>

\* The execution provider returns nothing or raises: the handler raises before
\* it has touched the position; _process_queue (lines 145-147) marks the entry failed.
ExecuteProviderFails(w) ==
    /\ wpc[w] = "execute"
    /\ LET p == Head(wrows[w]).position_address
           action == Head(wrows[w]).action_type
       IN /\ queue' = MarkFailed(queue, p,
                         IF action \in {"take_profit", "stop_loss"} THEN "Failed to close position"
                         ELSE IF action = "compound" THEN "Failed to compound position"
                         ELSE IF action = "rebalance" THEN "Failed to remove liquidity"
                         ELSE "Unknown action")
          /\ exec_count' = [exec_count EXCEPT ![p] = @ + 1]
    /\ AfterRow(w)
    /\ UNCHANGED <<notQueue, positions, rules, automation, transactions, hours, todo, passes,
                   enqueues, last_enqueue, claim_count>>

\* The handler raises after the provider has returned and after it has changed
\* the position object (a statement of lines 181-204 fails): _mark_failed then
\* commits on the same session, which flushes the changed position with it.
ExecuteRecordFails(w) ==
    /\ wpc[w] = "execute"
    /\ LET p == Head(wrows[w]).position_address
           action == Head(wrows[w]).action_type
       IN /\ action \in ActionTypes
          /\ positions' = [positions EXCEPT ![p] = HandlerEffect(@, action, hours)]
          /\ queue' = MarkFailed(queue, p, "error after the provider call")
          /\ exec_count' = [exec_count EXCEPT ![p] = @ + 1]
    /\ AfterRow(w)
    /\ UNCHANGED <<notQueue, rules, automation, transactions, hours, todo, passes, enqueues,
                   last_enqueue, claim_count>>

\* Time passes.
HourTick ==
    /\ hours < MaxHours
    /\ hours' = hours + 1
    /\ UNCHANGED <<notQueue, positions, rules, automation, queue, transactions, todo, wpc, wrows,
                   passes, enqueues, last_enqueue, claim_count, exec_count>>

\* ---------------------------------------------------------------------
\* Opportunity monitoring: backend/monitoring_service.py, the Telegram
\* /start and /stop commands (backend/telegram_bot.py) and the tables of
\* backend/models.py they use.
\*
\* fee rates are integers (hundredths of the source's floats) and the
\* threshold multiplier is a percentage (130 for 1.3), so that the
\* comparison of _find_new_opportunities stays exact.  The hourly
\* cleanup job keeps the last ten snapshots of a wallet and deletes
\* nothing within the bounds below.
\*
\* Assumption of this section: _fetch_opportunities can reach the backend.
\* monitoring_service.py reads os.environ at line 307 without importing os;
\* the NameError is caught at line 346, so as the file stands every fetch
\* answers None.  The model keeps both answers of the fetch.
\* ---------------------------------------------------------------------
NumWallets == 2
NumTickWallets == 1
NumTickSlots == 2
MaxTicks == 3

\* job_defaults of the scheduler.
max_instances == 3

\* opportunities[:5] in _send_telegram_notifications.
notification_limit == 5

\* config_data.get('threshold_multiplier', 1.3), as a percentage.
threshold_multiplier_default == 130

Wallets == 1..NumWallets

\* The wallets whose timers and ticks MonSpec follows.
TickWallets == 1..NumTickWallets
TickSlots == 1..NumTickSlots

\* interval_minutes values a start request carries.
IntervalChoices == {15}

Opp(a, rate) == [address |-> a, feeRate30min |-> rate]

\* The answers of /api/opportunities/analyze the model draws from.
OpportunityLists ==
    { <<Opp("poolA", 0)>>,
      <<Opp("poolA", 100)>>,
      <<Opp("poolA", 140), Opp("poolB", 100)>> }

IdleTick ==
    [pc |-> "idle", wallet |-> 0, origin |-> "", config |-> None, opportunities |-> <<>>,
     new_opportunities |-> <<>>, sent |-> 0, notify_failed |-> FALSE, stale |-> FALSE,
     outcome |-> "none"]

MonInit ==
    /\ users = [w \in Wallets |-> TRUE]
    /\ configs = [w \in Wallets |-> None]
    /\ snapshots = [w \in Wallets |-> <<>>]
    /\ jobs = [w \in Wallets |-> FALSE]
    /\ stopping = [w \in Wallets |-> FALSE]
    /\ ticks = [k \in TickSlots |-> IdleTick]
    /\ minutes = 0
    /\ ticks_started = 0

\* A run of _check_opportunities that has not reached its finally clause.
TickActive(k) == ticks[k].pc \in {"read_config", "fetch", "diff", "notify", "persist"}

\* The scheduler's count of running instances of the job of wallet w.
RunningInstances(w) ==
    Cardinality({k \in TickSlots : TickActive(k) /\ ticks[k].wallet = w
                                   /\ ticks[k].origin = "timer"})

\* The run has executed its last statement; its locals are dead.
EndTick(tick, outcome) ==
    [tick EXCEPT !.pc = "done", !.outcome = outcome, !.config = None,
                 !.opportunities = <<>>, !.new_opportunities = <<>>]

BeginTick(w, origin) ==
    [IdleTick EXCEPT !.pc = "read_config", !.wallet = w, !.origin = origin]

\* The config lookup of a tick without the enabled filter.
AnyConfig(cfgs, w) == cfgs[w]

\* _check_opportunities, lines 242-245: the config of the wallet, if enabled.
ActiveConfig(cfgs, w) ==
    IF cfgs[w] # None /\ cfgs[w].v.enabled THEN cfgs[w] ELSE None

\* start_monitoring, lines 98-116: get or create the config, enable it.
EnabledConfig(cfgs, w, interval) ==
    IF cfgs[w] = None
    THEN Some([enabled |-> TRUE, interval_minutes |-> interval,
               threshold_multiplier |-> threshold_multiplier_default,
               last_check |-> None, next_check |-> None])
    ELSE Some([cfgs[w].v EXCEPT !.enabled = TRUE, !.interval_minutes = interval,
                                !.threshold_multiplier = threshold_multiplier_default])

\* A commit of the tick that saves the snapshot and leaves the config alone.
CommitTickNoTimestamps(cfgs, w, t, interval) == cfgs

\* _check_opportunities, lines 290-293: the config part of the commit.
CommitTick(cfgs, w, t, interval) ==
    [cfgs EXCEPT ![w] = Some([cfgs[w].v EXCEPT !.last_check = Some(t),
                                               !.next_check = Some(t + interval)])]

\* _check_opportunities, lines 259-263.
PreviousOpps(w) ==
    IF snapshots[w] = <<>> THEN <<>> ELSE snapshots[w][Len(snapshots[w])].opportunities

RECURSIVE FirstWithAddress(_, _)
FirstWithAddress(previous, a) ==
    IF previous = <<>> THEN None
    ELSE IF Head(previous).address = a THEN Some(Head(previous))
    ELSE FirstWithAddress(Tail(previous), a)

\* A comparison with the threshold on the side of the current rate.
FeeRateImprovedInverse(opp, prev_opp, threshold) ==
    opp.feeRate30min * threshold > prev_opp.feeRate30min * 100

\* _find_new_opportunities, line 367: fee_rate_improved.
FeeRateImproved(opp, prev_opp, threshold) ==
    opp.feeRate30min * 100 > prev_opp.feeRate30min * threshold

\* _find_new_opportunities, lines 358-361 and 369-373: the opportunity with
\* its reason; the improvement is kept in whole percents.
NewPool(opp) ==
    [address |-> opp.address, feeRate30min |-> opp.feeRate30min,
     reason |-> "New pool discovered", improvement |-> 0]
ImprovedPool(opp, prev_opp) ==
    [address |-> opp.address, feeRate30min |-> opp.feeRate30min,
     reason |-> "Fee rate improved",
     improvement |-> (opp.feeRate30min * 100) \div prev_opp.feeRate30min - 100]

\* _find_new_opportunities: the list it returns, or the ZeroDivisionError of
\* line 369 when an improved pool's previous fee rate is 0.
RECURSIVE FindNewOpportunities(_, _, _)
FindNewOpportunities(previous, current, threshold) ==
    IF current = <<>> THEN [raised |-> FALSE, new |-> <<>>]
    ELSE LET opp == Head(current)
             prev_opp == FirstWithAddress(previous, opp.address)
             rest == FindNewOpportunities(previous, Tail(current), threshold)
             improved == prev_opp # None /\ FeeRateImproved(opp, prev_opp.v, threshold)
             raises == improved /\ prev_opp.v.feeRate30min = 0
         IN IF raises \/ rest.raised THEN [raised |-> TRUE, new |-> <<>>]
            ELSE IF prev_opp = None THEN [rest EXCEPT !.new = <<NewPool(opp)>> \o @]
            ELSE IF improved THEN [rest EXCEPT !.new = <<ImprovedPool(opp, prev_opp.v)>> \o @]
            ELSE rest

Min(a, b) == IF a < b THEN a ELSE b

\* telegram_bot.py start_command: linking Telegram creates the user row.
TelegramStart(w) ==
    /\ ~users[w]
    /\ users' = [users EXCEPT ![w] = TRUE]
    /\ UNCHANGED <<notMon, configs, snapshots, jobs, stopping, ticks, minutes, ticks_started>>

\* telegram_bot.py stop_command: deletes the user; the delete cascades to the
\* wallet's config and snapshots.  The scheduled job is left in place.  A
\* running tick that has loaded the config now holds a deleted row.
TelegramStop(w) ==
    /\ users[w]
    /\ users' = [users EXCEPT ![w] = FALSE]
    /\ configs' = [configs EXCEPT ![w] = None]
    /\ snapshots' = [snapshots EXCEPT ![w] = <<>>]
    /\ ticks' = [k \in TickSlots |->
                    IF ticks[k].wallet = w /\ ticks[k].pc \in {"fetch", "diff", "notify", "persist"}
                    THEN [ticks[k] EXCEPT !.stale = TRUE]
                    ELSE ticks[k]]
    /\ UNCHANGED <<notMon, jobs, stopping, minutes, ticks_started>>

\* start_monitoring: commits the enabled config, schedules the job and starts
\* the synchronous first tick in the caller's thread.
StartMonitoring(w, k, interval) ==
    /\ users[w]
    /\ ticks[k].pc = "idle"
    /\ ticks_started < MaxTicks
    /\ configs' = [configs EXCEPT ![w] = EnabledConfig(configs, w, interval)]
    /\ jobs' = [jobs EXCEPT ![w] = TRUE]
    /\ ticks' = [ticks EXCEPT ![k] = BeginTick(w, "start")]
    /\ ticks_started' = ticks_started + 1
    /\ UNCHANGED <<notMon, users, snapshots, stopping, minutes>>

\* stop_monitoring, lines 138-145: persist enabled = False.
StopMonitoringCommit(w) ==
    /\ ~stopping[w]
    /\ stopping' = [stopping EXCEPT ![w] = TRUE]
    /\ configs' = [configs EXCEPT ![w] =
                      IF configs[w] = None THEN None
                      ELSE Some([configs[w].v EXCEPT !.enabled = FALSE])]
    /\ UNCHANGED <<notMon, users, snapshots, jobs, ticks, minutes, ticks_started>>

\* stop_monitoring, lines 148-150: remove the scheduled job.
StopMonitoringRemoveJob(w) ==
    /\ stopping[w]
    /\ stopping' = [stopping EXCEPT ![w] = FALSE]
    /\ jobs' = [jobs EXCEPT ![w] = FALSE]
    /\ UNCHANGED <<notMon, users, configs, snapshots, ticks, minutes, ticks_started>>

\* load_active_monitors, run when the process starts: the scheduler is empty
\* and gets one job per enabled config.
LoadActiveMonitors ==
    /\ \A k \in TickSlots : ticks[k].pc = "idle"
    /\ \A w \in Wallets : ~stopping[w]
    /\ jobs' = [w \in Wallets |-> ActiveConfig(configs, w) # None]
    /\ jobs' # jobs
    /\ UNCHANGED <<notMon, users, configs, snapshots, stopping, ticks, minutes, ticks_started>>

\* The interval trigger of job monitor_<w> fires; the scheduler starts the
\* run unless max_instances runs of the job are in progress.
TimerFires(w, k) ==
    /\ jobs[w]
    /\ ticks[k].pc = "idle"
    /\ RunningInstances(w) < max_instances
    /\ ticks_started < MaxTicks
    /\ ticks' = [ticks EXCEPT ![k] = BeginTick(w, "timer")]
    /\ ticks_started' = ticks_started + 1
    /\ UNCHANGED <<notMon, users, configs, snapshots, jobs, stopping, minutes>>

\* _check_opportunities, lines 242-249.
ReadConfig(k) ==
    /\ ticks[k].pc = "read_config"
    /\ LET config == ActiveConfig(configs, ticks[k].wallet)
       IN ticks' = [ticks EXCEPT ![k] =
                       IF config = None
                       THEN EndTick(@, "noop")
                       ELSE [@ EXCEPT !.pc = "fetch",
                                      !.config = Some([interval_minutes |-> config.v.interval_minutes,
                                                       threshold_multiplier |-> config.v.threshold_multiplier])]]
    /\ UNCHANGED <<notMon, users, configs, snapshots, jobs, stopping, minutes, ticks_started>>

\* _fetch_opportunities answers with a list.
FetchOpportunities(k, opps) ==
    /\ ticks[k].pc = "fetch"
    /\ ticks' = [ticks EXCEPT ![k] = [@ EXCEPT !.pc = "diff", !.opportunities = opps]]
    /\ UNCHANGED <<notMon, users, configs, snapshots, jobs, stopping, minutes, ticks_started>>

\* _fetch_opportunities answers None (a non-200 status or an exception);
\* _check_opportunities returns at line 256.
FetchOpportunitiesFails(k) ==
    /\ ticks[k].pc = "fetch"
    /\ ticks' = [ticks EXCEPT ![k] = EndTick(@, "fetch_failed")]
    /\ UNCHANGED <<notMon, users, configs, snapshots, jobs, stopping, minutes, ticks_started>>

\* _check_opportunities, lines 259-280: read the previous snapshot and diff.
\* An exception of the diff reaches the handler of line 297 (rollback).
DiffSnapshot(k) ==
    /\ ticks[k].pc = "diff"
    /\ LET found == FindNewOpportunities(PreviousOpps(ticks[k].wallet), ticks[k].opportunities,
                                         ticks[k].config.v.threshold_multiplier)
       IN ticks' = [ticks EXCEPT ![k] =
                       IF found.raised
                       THEN EndTick(@, "error")
                       ELSE [@ EXCEPT !.pc = IF found.new # <<>> THEN "notify" ELSE "persist",
                                      !.new_opportunities = found.new]]
    /\ UNCHANGED <<notMon, users, configs, snapshots, jobs, stopping, minutes, ticks_started>>

NotificationResults == {"delivered", "sink_failed", "raised"}

\* The messages _send_telegram_notifications gets delivered: none without a
\* user row; all of the first notification_limit; all but one when
\* send_notification answers False for one; none when building or sending
\* the first message raises.
Delivered(k, res) ==
    LET n == Min(Len(ticks[k].new_opportunities), notification_limit)
    IN IF ~users[ticks[k].wallet] THEN 0
       ELSE IF res = "delivered" THEN n
       ELSE IF res = "sink_failed" THEN n - 1
       ELSE 0

\* A tick in which a failed delivery propagates to the handler of line 297.
SendNotificationsAborting(k, res) ==
    /\ ticks[k].pc = "notify"
    /\ users[ticks[k].wallet] \/ res = "delivered"
    /\ ticks' = [ticks EXCEPT ![k] =
                    IF users[ticks[k].wallet] /\ res # "delivered"
                    THEN EndTick([@ EXCEPT !.notify_failed = TRUE, !.sent = Delivered(k, res)],
                                 "error")
                    ELSE [@ EXCEPT !.pc = "persist", !.sent = Delivered(k, res)]]
    /\ UNCHANGED <<notMon, users, configs, snapshots, jobs, stopping, minutes, ticks_started>>

\* _send_telegram_notifications, called at line 278: send_notification's
\* answer is ignored and an exception is logged at lines 403-404; the tick
\* goes on to the snapshot either way.
SendNotifications(k, res) ==
    /\ ticks[k].pc = "notify"
    /\ users[ticks[k].wallet] \/ res = "delivered"
    /\ ticks' = [ticks EXCEPT ![k] =
                    [@ EXCEPT !.pc = "persist", !.sent = Delivered(k, res),
                              !.notify_failed = users[ticks[k].wallet] /\ res # "delivered"]]
    /\ UNCHANGED <<notMon, users, configs, snapshots, jobs, stopping, minutes, ticks_started>>

\* _check_opportunities, lines 283-293: snapshot and timestamps in one commit.
\* The store rejects the commit when the config row the tick loaded has been
\* deleted, and may reject it for reasons of its own; the handler of line
\* 297 rolls back.
PersistTick(k, accepted) ==
    /\ ticks[k].pc = "persist"
    /\ LET w == ticks[k].wallet
       IN IF accepted /\ ~ticks[k].stale
          THEN /\ snapshots' = [snapshots EXCEPT ![w] =
                                   Append(@, [opportunities |-> ticks[k].opportunities,
                                              created_at |-> minutes + 1])]
               /\ configs' = CommitTick(configs, w, minutes + 1, ticks[k].config.v.interval_minutes)
               /\ minutes' = minutes + 1
               /\ ticks' = [ticks EXCEPT ![k] = EndTick(@, "persisted")]
          ELSE /\ ticks' = [ticks EXCEPT ![k] = EndTick(@, "commit_rejected")]
               /\ UNCHANGED <<snapshots, configs, minutes>>
    /\ UNCHANGED <<notMon, users, jobs, stopping, ticks_started>>

\* _check_opportunities returns (finally: db.close()).
TickReturns(k) ==
    /\ ticks[k].pc = "done"
    /\ ticks' = [ticks EXCEPT ![k] = IdleTick]
    /\ UNCHANGED <<notMon, users, configs, snapshots, jobs, stopping, minutes, ticks_started>>

\* ---------------------------------------------------------------------
\* The lifecycle calls of MonitoringService (start_monitoring,
\* stop_monitoring, load_active_monitors) with the scheduler's job store in
\* full.  The calls, and the Telegram commands that create and delete the
\* user, are taken one at a time; the steps of the tick that
\* start_monitoring runs interleave with nothing else.  The store accepts
\* the commits of the calls, so the except branches (lines 127-130 and
\* 155-158) are not taken.
\* ---------------------------------------------------------------------

\* interval_minutes values a start request carries.
StartIntervals == {15, 30}

IdleApi ==
    [op |-> "none", pc |-> "idle", wallet |-> 0, interval |-> 0, slot |-> 0, ret |-> "none",
     had_config |-> FALSE, was_enabled |-> FALSE, had_jobs |-> {}]

BeginApi(op, at, w, interval) ==
    [IdleApi EXCEPT !.op = op, !.pc = at, !.wallet = w, !.interval = interval,
                    !.had_config = (w \in Wallets /\ configs[w] # None),
                    !.was_enabled = (w \in Wallets /\ configs[w] # None /\ configs[w].v.enabled),
                    !.had_jobs = {j \in scheduler_jobs : j.id = w}]

ApiInit ==
    /\ scheduler_jobs = {}
    /\ api = IdleApi

\* scheduler.get_job(job_id): the jobs stored under the id of the wallet.
JobsOf(js, w) == {j \in js : j.id = w}

\* The abstraction of the job store the tick model uses.
Armed(js) == [w \in Wallets |-> JobsOf(js, w) # {}]

\* A user check that lets every wallet pass.
UserLinkedAlways(us, w) == TRUE

\* start_monitoring, lines 93-96.
UserLinked(us, w) == us[w]

\* A _schedule_monitor that adds the job without looking for an existing one.
ScheduleMonitorAddOnly(js, w, interval) == js \cup {[id |-> w, minutes |-> interval]}

\* _schedule_monitor: remove the job of the wallet if there is one, then
\* add_job(..., id = job_id, replace_existing = True).
ScheduleMonitor(js, w, interval) ==
    (js \ JobsOf(js, w)) \cup {[id |-> w, minutes |-> interval]}

\* A job removal that leaves the job store as it is.
RemoveJobNever(js, w) == js

\* stop_monitoring, lines 148-150.
RemoveJob(js, w) == IF JobsOf(js, w) # {} THEN js \ JobsOf(js, w) ELSE js

\* The configs of every wallet that has one, enabled or not.
ConfiguredWallets(cfgs) == {w \in Wallets : cfgs[w] # None}

\* load_active_monitors, lines 53-55: the wallets of the enabled configs.
EnabledWallets(cfgs) == {w \in Wallets : cfgs[w] # None /\ cfgs[w].v.enabled}

\* load_active_monitors, lines 59-62: _schedule_monitor for every wallet of ws.
RECURSIVE ScheduleAll(_, _, _)
ScheduleAll(js, cfgs, ws) ==
    IF ws = {} THEN js
    ELSE LET w == CHOOSE x \in ws : TRUE
         IN ScheduleAll(ScheduleMonitor(js, w, cfgs[w].v.interval_minutes), cfgs, ws \ {w})

\* A lifecycle call comes in.
StartCall(w, interval) ==
    /\ api.pc = "idle"
    /\ ticks_started < MaxTicks
    /\ api' = BeginApi("start", "check_user", w, interval)
    /\ UNCHANGED <<notApi, monVars, scheduler_jobs>>

\* start_monitoring, lines 93-96: no linked user, the call answers False.
StartCheckUser ==
    /\ api.op = "start" /\ api.pc = "check_user"
    /\ api' = IF UserLinked(users, api.wallet)
              THEN [api EXCEPT !.pc = "commit"]
              ELSE [api EXCEPT !.pc = "returned", !.ret = "False"]
    /\ UNCHANGED <<notApi, monVars, scheduler_jobs>>

\* start_monitoring, lines 98-116: the enabled config is committed.
StartCommitConfig ==
    /\ api.op = "start" /\ api.pc = "commit"
    /\ configs' = [configs EXCEPT ![api.wallet] =
                      EnabledConfig(configs, api.wallet, api.interval)]
    /\ api' = [api EXCEPT !.pc = "schedule"]
    /\ UNCHANGED <<notApi, users, snapshots, jobs, stopping, ticks, minutes, ticks_started,
                   scheduler_jobs>>

\* start_monitoring, lines 119-122: the job is scheduled and the first tick
\* starts in the caller's thread.
StartSchedule(k) ==
    /\ api.op = "start" /\ api.pc = "schedule"
    /\ ticks[k].pc = "idle"
    /\ scheduler_jobs' = ScheduleMonitor(scheduler_jobs, api.wallet, api.interval)
    /\ jobs' = Armed(scheduler_jobs')
    /\ ticks' = [ticks EXCEPT ![k] = BeginTick(api.wallet, "start")]
    /\ ticks_started' = ticks_started + 1
    /\ api' = [api EXCEPT !.pc = "tick", !.slot = k]
    /\ UNCHANGED <<notApi, users, configs, snapshots, stopping, minutes>>

\* start_monitoring, lines 122-125: _check_opportunities has returned, the
\* call answers True.
StartReturn ==
    /\ api.op = "start" /\ api.pc = "tick"
    /\ ticks[api.slot].pc = "done"
    /\ ticks' = [ticks EXCEPT ![api.slot] = IdleTick]
    /\ api' = [api EXCEPT !.pc = "returned", !.ret = "True"]
    /\ UNCHANGED <<notApi, users, configs, snapshots, jobs, stopping, minutes, ticks_started,
                   scheduler_jobs>>

StopCall(w) ==
    /\ api.pc = "idle"
    /\ api' = BeginApi("stop", "commit", w, 0)
    /\ UNCHANGED <<notApi, monVars, scheduler_jobs>>

\* stop_monitoring, lines 138-145.
StopCommitConfig ==
    /\ api.op = "stop" /\ api.pc = "commit"
    /\ configs' = [configs EXCEPT ![api.wallet] =
                      IF configs[api.wallet] = None THEN None
                      ELSE Some([configs[api.wallet].v EXCEPT !.enabled = FALSE])]
    /\ api' = [api EXCEPT !.pc = "remove_job"]
    /\ UNCHANGED <<notApi, users, snapshots, jobs, stopping, ticks, minutes, ticks_started,
                   scheduler_jobs>>

\* stop_monitoring, lines 147-153: the job is removed, the call answers True.
StopRemoveJob ==
    /\ api.op = "stop" /\ api.pc = "remove_job"
    /\ scheduler_jobs' = RemoveJob(scheduler_jobs, api.wallet)
    /\ jobs' = Armed(scheduler_jobs')
    /\ api' = [api EXCEPT !.pc = "returned", !.ret = "True"]
    /\ UNCHANGED <<notApi, users, configs, snapshots, stopping, ticks, minutes, ticks_started>>

\* The process stops and starts again: the scheduler of the new process is
\* empty (__init__, lines 31-35) and app.py calls load_active_monitors.
ProcessRestart ==
    /\ api.pc = "idle"
    /\ scheduler_jobs' = {}
    /\ jobs' = Armed(scheduler_jobs')
    /\ api' = BeginApi("load", "load", 0, 0)
    /\ UNCHANGED <<notApi, users, configs, snapshots, stopping, ticks, minutes, ticks_started>>

\* load_active_monitors: one job per enabled config.
LoadMonitors ==
    /\ api.op = "load" /\ api.pc = "load"
    /\ scheduler_jobs' = ScheduleAll(scheduler_jobs, configs, EnabledWallets(configs))
    /\ jobs' = Armed(scheduler_jobs')
    /\ api' = [api EXCEPT !.pc = "returned"]
    /\ UNCHANGED <<notApi, users, configs, snapshots, stopping, ticks, minutes, ticks_started>>

\* The caller has its answer.
ApiReturns ==
    /\ api.pc = "returned"
    /\ api' = IdleApi
    /\ UNCHANGED <<notApi, monVars, scheduler_jobs>>

\* /start and /stop of the Telegram bot, between two lifecycle calls.
LinkUser(w) == api.pc = "idle" /\ TelegramStart(w)
UnlinkUser(w) == api.pc = "idle" /\ TelegramStop(w)

\* ---------------------------------------------------------------------
\* _find_new_opportunities as a function of its arguments.  Fee rates are
\* not negative (fees and liquidity are not), and a snapshot lists a pool
\* once.
\* ---------------------------------------------------------------------
MaxOpps == 2

DiffAddresses == {"poolA", "poolB"}
DiffRates == {0, 100, 125, 140}
DiffThresholds == {100, 130, 200}

DiffOpps == {Opp(a, r) : a \in DiffAddresses, r \in DiffRates}

\* The opportunity lists of at most MaxOpps pools, each pool once.
RECURSIVE OppListsUpTo(_)
OppListsUpTo(n) ==
    IF n = 0 THEN {<<>>}
    ELSE LET shorter == OppListsUpTo(n - 1)
         IN shorter \cup {Append(l, o) : l \in shorter, o \in DiffOpps}

DistinctAddresses(l) == \A i, j \in 1..Len(l) : i # j => l[i].address # l[j].address

DiffLists == {l \in OppListsUpTo(MaxOpps) : DistinctAddresses(l)}

NoDiffResult == [raised |-> FALSE, new |-> <<>>]

\* No call of the diff in progress.
DiffIdle ==
    diff = [pc |-> "idle", previous |-> <<>>, current |-> <<>>, low |-> 0, high |-> 0,
            with_low |-> NoDiffResult, with_high |-> NoDiffResult]

\* The arguments of a pair of calls: the same lists, two thresholds.
DiffInit ==
    \E previous \in DiffLists, current \in DiffLists, low \in DiffThresholds,
       high \in DiffThresholds :
        /\ low <= high
        /\ diff = [pc |-> "called", previous |-> previous, current |-> current,
                   low |-> low, high |-> high,
                   with_low |-> NoDiffResult, with_high |-> NoDiffResult]

\* _find_new_opportunities runs for both thresholds.
DiffCompute ==
    /\ diff.pc = "called"
    /\ diff' = [diff EXCEPT !.pc = "done",
                            !.with_low = FindNewOpportunities(diff.previous, diff.current, diff.low),
                            !.with_high = FindNewOpportunities(diff.previous, diff.current, diff.high)]
    /\ UNCHANGED notDiff

\* ---------------------------------------------------------------------
\* One cycle of _monitor_all_positions as a function of the rules rows and
\* of what the Meteora microservice reports: which _queue_action calls the
\* cycle makes.  Every position opened with 100 USD of liquidity.
\* ---------------------------------------------------------------------
NumCheckPositions == 2

CheckedPositions == 1..NumCheckPositions

\* take_profit_enabled, take_profit_type, take_profit_value of a rules row
\* (models.py lines 310-312: the type is 'percentage' or 'usd_amount').
TakeProfitSettings ==
    {[enabled |-> FALSE, type |-> "percentage", value |-> 20],
     [enabled |-> TRUE, type |-> "percentage", value |-> 20],
     [enabled |-> TRUE, type |-> "usd_amount", value |-> 20]}

\* stop_loss_enabled, stop_loss_type, stop_loss_value (models.py lines 316-318).
StopLossSettings ==
    {[enabled |-> FALSE, type |-> "percentage", value |-> -20],
     [enabled |-> TRUE, type |-> "percentage", value |-> -20],
     [enabled |-> TRUE, type |-> "percentage", value |-> 30],
     [enabled |-> TRUE, type |-> "usd_amount", value |-> 30]}

\* rebalancing_enabled, rebalance_triggers (models.py lines 328-329).
RebalanceSettings ==
    {[enabled |-> FALSE, triggers |-> <<[type |-> "fee_threshold", value |-> 10]>>],
     [enabled |-> TRUE, triggers |-> <<>>],
     [enabled |-> TRUE, triggers |-> <<[type |-> "price_drift", value |-> 10],
                                       [type |-> "fee_threshold", value |-> 10]>>]}

RuleRows ==
    {[take_profit_enabled |-> tp.enabled, take_profit_type |-> tp.type,
      take_profit_value |-> tp.value,
      stop_loss_enabled |-> sl.enabled, stop_loss_type |-> sl.type,
      stop_loss_value |-> sl.value,
      auto_compound_enabled |-> FALSE, compound_frequency_hours |-> 1,
      compound_min_threshold_usd |-> 0,
      rebalancing_enabled |-> rb.enabled, rebalance_triggers |-> rb.triggers] :
        tp \in TakeProfitSettings, sl \in StopLossSettings, rb \in RebalanceSettings}

\* What get_position_data reports for a position of the cycle.
CheckDataValues ==
    PositionDataValues \cup {Some([valueUSD |-> 120, feesUSD |-> 10]),
                             Some([valueUSD |-> 70, feesUSD |-> 10])}

OpenedPosition == [liquidity_usd |-> 100]

\* _check_position, lines 142-144.
TakeProfitFires(r, profit_percentage) ==
    /\ r.take_profit_enabled
    /\ r.take_profit_type = "percentage"
    /\ profit_percentage >= r.take_profit_value

\* _check_position, lines 150-152.
StopLossFires(r, profit_percentage) ==
    /\ r.stop_loss_enabled
    /\ r.stop_loss_type = "percentage"
    /\ profit_percentage <= r.stop_loss_value

\* _check_position, lines 158-159.
RebalanceFires(r, fees_usd) ==
    /\ r.rebalancing_enabled
    /\ r.rebalance_triggers # <<>>
    /\ CheckRebalanceTriggers(fees_usd, r.rebalance_triggers)

\* _check_position without the `return` of lines 147 and 155.
RuleActionsFallingThrough(r, profit_percentage, fees_usd) ==
    (IF TakeProfitFires(r, profit_percentage) THEN <<"take_profit">> ELSE <<>>)
    \o (IF StopLossFires(r, profit_percentage) THEN <<"stop_loss">> ELSE <<>>)
    \o (IF RebalanceFires(r, fees_usd) THEN <<"rebalance">> ELSE <<>>)

\* _check_position, lines 141-161: the _queue_action calls it makes, in order
\* (_execute_take_profit, _execute_stop_loss, _execute_rebalance each make one).
RuleActions(r, profit_percentage, fees_usd) ==
    IF TakeProfitFires(r, profit_percentage)
    THEN <<"take_profit">>                        \* line 147: return
    ELSE IF StopLossFires(r, profit_percentage)
    THEN <<"stop_loss">>                          \* line 155: return
    ELSE IF RebalanceFires(r, fees_usd)
    THEN <<"rebalance">>
    ELSE <<>>

\* No cycle in progress.
CheckIdle ==
    check = [todo |-> <<>>, rules |-> [p \in CheckedPositions |-> None],
             automation |-> "absent", data |-> [p \in CheckedPositions |-> None],
             enqueued |-> <<>>]

\* The cycle has read the active positions (lines 75-77); their rules rows
\* and the wallet's automation_configs row are as the routes left them.
CheckInit ==
    \E rs \in [CheckedPositions -> {Some(r) : r \in RuleRows} \cup {None}],
       a \in {"absent", "disabled"} :
        check = [todo |-> SeqOfSet(CheckedPositions), rules |-> rs, automation |-> a,
                 data |-> [p \in CheckedPositions |-> None], enqueued |-> <<>>]

\* _monitor_all_positions, lines 81-85, with _check_position for the next
\* position: the early returns of lines 102-118, then the rules.
CheckPositionRules(data) ==
    /\ check.todo # <<>>
    /\ LET p == Head(check.todo)
           ret == \/ check.rules[p] = None
                  \/ check.automation = "disabled"
                  \/ data = None
           actions == IF ret THEN <<>>
                      ELSE RuleActions(check.rules[p].v,
                                       ProfitPercentage(OpenedPosition, data.v),
                                       data.v.feesUSD)
       IN check' = [check EXCEPT
                      !.todo = Tail(@),
                      !.data[p] = IF ret THEN None ELSE data,
                      !.enqueued = @ \o [i \in 1..Len(actions) |->
                                           [position_address |-> p,
                                            action_type |-> actions[i]]]]
    /\ UNCHANGED notCheck

\* ---------------------------------------------------------------------
\* Two-tier cache: backend/grouped_pool_cache.py.  The outer cache holds the
\* token-pair groups, the inner one the pools of each group.  A page of the
\* upstream answers stands for all pages of one fetch (the loop of lines
\* 163-184 and 292-313 raises on the first page that fails), and the
\* callers pass no limit shorter than the list of groups.
\* ---------------------------------------------------------------------
NumGroupThreads == 2
MaxGroupCalls == 2
MaxGroupTime == 1800
GroupTimeStep == 1800

groups_cache_duration == 3600
pools_cache_duration == 300
min_group_tvl == 10000
min_pool_tvl == 100

GroupThreads == 1..NumGroupThreads

GroupIds == {"g1", "g2", "small"}

\* GET /pair/groups: the groups the upstream lists, in its order.
GroupCatalogue ==
    <<[lexical_order_mints |-> "g1", total_tvl |-> 20000],
      [lexical_order_mints |-> "small", total_tvl |-> 5000],
      [lexical_order_mints |-> "g2", total_tvl |-> 50000]>>

\* GET /pair/groups/{group_id}: the pools the upstream lists for a group.
GroupPoolsUpstream(g) ==
    <<[group |-> g, address |-> "open", hide |-> FALSE, is_blacklisted |-> FALSE,
       liquidity |-> 5000],
      [group |-> g, address |-> "hidden", hide |-> TRUE, is_blacklisted |-> FALSE,
       liquidity |-> 5000]>>

\* GroupedPoolCache._filter_groups
FilterGroups(groups) == SelectSeq(groups, LAMBDA g : g.total_tvl >= min_group_tvl)

\* filtered_groups.sort(key=total_tvl, reverse=True)
RECURSIVE SortByTvl(_)
SortByTvl(groups) ==
    IF groups = <<>> THEN <<>>
    ELSE LET i == CHOOSE k \in 1..Len(groups) :
                     /\ \A j \in 1..Len(groups) : groups[j].total_tvl <= groups[k].total_tvl
                     /\ \A j \in 1..(k - 1) : groups[j].total_tvl < groups[k].total_tvl
         IN <<groups[i]>>
            \o SortByTvl(SubSeq(groups, 1, i - 1) \o SubSeq(groups, i + 1, Len(groups)))

\* GroupedPoolCache._filter_pools
FilterGroupPools(pools) ==
    SelectSeq(pools, LAMBDA pool : /\ ~pool.hide
                                   /\ ~pool.is_blacklisted
                                   /\ ~(pool.liquidity < min_pool_tvl))

\* GroupedPoolCache._is_groups_cache_fresh
IsGroupsCacheFresh(t) ==
    IF groups_data = None \/ groups_last_fetch = None THEN FALSE
    ELSE (t - groups_last_fetch.v) < groups_cache_duration

\* _get_group_pools, lines 255-259, and _fetch_group_pools, lines 274-278:
\* the group has an entry younger than pools_cache_duration.
IsGroupEntryFresh(cache, g, t) ==
    /\ cache[g] # None
    /\ (t - cache[g].v.last_fetch) < pools_cache_duration

\* _fetch_group_pools, lines 337-345, with the stale fallback left out: the
\* exception goes on to the caller when the group has no entry.
GroupFetchFailureRaising(cache, g) ==
    IF cache[g] # None
    THEN [kind |-> "stale", pools |-> cache[g].v.data]
    ELSE [kind |-> "raise", pools |-> <<>>]

\* _fetch_group_pools, lines 337-345: what the lookup answers when the
\* request has raised requests.RequestException.
GroupFetchFailure(cache, g) ==
    IF cache[g] # None
    THEN [kind |-> "stale", pools |-> cache[g].v.data]
    ELSE [kind |-> "empty", pools |-> <<>>]

IdleGroupCall ==
    [pc |-> "idle", force |-> FALSE, now |-> 0, todo |-> <<>>, all_pools |-> <<>>,
     lock |-> 0, result |-> NoResult, lookups |-> <<>>, failed_cold |-> {}]

GroupInit ==
    /\ groups_data = None
    /\ groups_last_fetch = None
    /\ groups_fetch_lock = 0
    /\ pools_cache = [g \in GroupIds |-> None]
    /\ pools_fetch_locks = [g \in GroupIds |-> 0]
    /\ lock_holder = [g \in GroupIds |-> [o \in GroupThreads |-> 0]]
    /\ gclock = 0
    /\ gcalls = 0
    /\ gthreads = [t \in GroupThreads |-> IdleGroupCall]

\* get_pools, lines 95-104: with the groups in hand the call returns [] or
\* starts the loop over them.
WithGroups(call, groups) ==
    IF groups = <<>>
    THEN [call EXCEPT !.pc = "done", !.result = Returned(<<>>)]
    ELSE [call EXCEPT !.pc = "loop",
                      !.todo = [i \in 1..Len(groups) |-> groups[i].lexical_order_mints]]

\* get_pools, lines 106-108: _get_group_pools has answered `pools` for the
\* group at the head of the loop.  `lookups` is the history of the answers,
\* `failed_cold` the groups whose request failed while they had no entry.
WithGroupPools(call, how, pools) ==
    [call EXCEPT !.pc = "loop",
                 !.todo = Tail(@),
                 !.lock = 0,
                 !.all_pools = IF pools # <<>> THEN @ \o pools ELSE @,
                 !.lookups = Append(@, [group |-> Head(call.todo), how |-> how,
                                        pools |-> pools])]

\* get_pools, line 93, with _get_groups, lines 124-134.
GroupedGetPools(t, force) ==
    /\ gthreads[t].pc = "idle"
    /\ gcalls < MaxGroupCalls
    /\ gcalls' = gcalls + 1
    /\ LET call == [IdleGroupCall EXCEPT !.force = force, !.now = gclock]
       IN gthreads' = [gthreads EXCEPT ![t] =
                         IF ~force /\ IsGroupsCacheFresh(gclock)
                         THEN WithGroups(call, groups_data.v)
                         ELSE [call EXCEPT !.pc = "groups_acquire"]]
    /\ UNCHANGED <<notGroup, groups_data, groups_last_fetch, groups_fetch_lock, pools_cache,
                   pools_fetch_locks, lock_holder, gclock>>

\* _fetch_fresh_groups, line 146: with self.groups_fetch_lock.
AcquireGroupsLock(t) ==
    /\ gthreads[t].pc = "groups_acquire"
    /\ groups_fetch_lock = 0
    /\ groups_fetch_lock' = t
    /\ gthreads' = [gthreads EXCEPT ![t].pc = "groups_locked"]
    /\ UNCHANGED <<notGroup, groups_data, groups_last_fetch, pools_cache, pools_fetch_locks,
                   lock_holder, gclock, gcalls>>

\* _fetch_fresh_groups, lines 148-152: the double check under the lock.
GroupsDoubleCheck(t) ==
    /\ gthreads[t].pc = "groups_locked"
    /\ IF IsGroupsCacheFresh(gthreads[t].now)
       THEN /\ groups_fetch_lock' = 0
            /\ gthreads' = [gthreads EXCEPT ![t] = WithGroups(@, groups_data.v)]
       ELSE /\ gthreads' = [gthreads EXCEPT ![t].pc = "groups_request"]
            /\ UNCHANGED groups_fetch_lock
    /\ UNCHANGED <<notGroup, groups_data, groups_last_fetch, pools_cache, pools_fetch_locks,
                   lock_holder, gclock, gcalls>>

\* _fetch_fresh_groups, lines 163-211: every page is answered; the groups
\* are filtered, sorted and stored.
GroupsFetchSucceeds(t, raw) ==
    /\ gthreads[t].pc = "groups_request"
    /\ groups_data' = Some(SortByTvl(FilterGroups(raw)))
    /\ groups_last_fetch' = Some(gthreads[t].now)
    /\ groups_fetch_lock' = 0
    /\ gthreads' = [gthreads EXCEPT ![t] = WithGroups(@, SortByTvl(FilterGroups(raw)))]
    /\ UNCHANGED <<notGroup, pools_cache, pools_fetch_locks, lock_holder, gclock, gcalls>>

\* _fetch_fresh_groups, lines 213-221: requests.RequestException; the stale
\* list if there is one, else the exception goes on through get_pools.
GroupsFetchFails(t) ==
    /\ gthreads[t].pc = "groups_request"
    /\ groups_fetch_lock' = 0
    /\ gthreads' = [gthreads EXCEPT ![t] =
                      IF Truthy(groups_data)
                      THEN WithGroups(@, groups_data.v)
                      ELSE [@ EXCEPT !.pc = "done", !.result = Raised("RequestException")]]
    /\ UNCHANGED <<notGroup, groups_data, groups_last_fetch, pools_cache, pools_fetch_locks,
                   lock_holder, gclock, gcalls>>

\* get_pools, lines 104-115: the loop has handled every group.
ReturnAggregate(t) ==
    /\ gthreads[t].pc = "loop"
    /\ gthreads[t].todo = <<>>
    /\ gthreads' = [gthreads EXCEPT ![t].pc = "done",
                                    ![t].result = Returned(gthreads[t].all_pools)]
    /\ UNCHANGED <<notGroup, groups_data, groups_last_fetch, groups_fetch_lock, pools_cache,
                   pools_fetch_locks, lock_holder, gclock, gcalls>>

\* _get_group_pools, lines 252-264, for the next group of the loop.
GetGroupPools(t) ==
    /\ gthreads[t].pc = "loop"
    /\ gthreads[t].todo # <<>>
    /\ LET g == Head(gthreads[t].todo)
       IN gthreads' = [gthreads EXCEPT ![t] =
                         IF ~gthreads[t].force /\ IsGroupEntryFresh(pools_cache, g, gclock)
                         THEN WithGroupPools([@ EXCEPT !.now = gclock], "hit",
                                             pools_cache[g].v.data)
                         ELSE [@ EXCEPT !.now = gclock, !.pc = "pools_check_lock"]]
    /\ UNCHANGED <<notGroup, groups_data, groups_last_fetch, groups_fetch_lock, pools_cache,
                   pools_fetch_locks, lock_holder, gclock, gcalls>>

\* _fetch_group_pools, line 269: is there a lock for the group?
CheckGroupLock(t) ==
    /\ gthreads[t].pc = "pools_check_lock"
    /\ gthreads' = [gthreads EXCEPT ![t].pc =
                      IF pools_fetch_locks[Head(gthreads[t].todo)] = 0
                      THEN "pools_create_lock" ELSE "pools_acquire"]
    /\ UNCHANGED <<notGroup, groups_data, groups_last_fetch, groups_fetch_lock, pools_cache,
                   pools_fetch_locks, lock_holder, gclock, gcalls>>

\* _fetch_group_pools, line 270: a new Lock takes the group's place in the dict.
CreateGroupLock(t) ==
    /\ gthreads[t].pc = "pools_create_lock"
    /\ pools_fetch_locks' = [pools_fetch_locks EXCEPT ![Head(gthreads[t].todo)] = t]
    /\ gthreads' = [gthreads EXCEPT ![t].pc = "pools_acquire"]
    /\ UNCHANGED <<notGroup, groups_data, groups_last_fetch, groups_fetch_lock, pools_cache,
                   lock_holder, gclock, gcalls>>

\* _fetch_group_pools, line 272: with self.pools_fetch_locks[group_id].
AcquireGroupLock(t) ==
    /\ gthreads[t].pc = "pools_acquire"
    /\ LET g == Head(gthreads[t].todo)
           o == pools_fetch_locks[g]
       IN /\ lock_holder[g][o] = 0
          /\ lock_holder' = [lock_holder EXCEPT ![g][o] = t]
          /\ gthreads' = [gthreads EXCEPT ![t].pc = "pools_locked", ![t].lock = o]
    /\ UNCHANGED <<notGroup, groups_data, groups_last_fetch, groups_fetch_lock, pools_cache,
                   pools_fetch_locks, gclock, gcalls>>

\* _fetch_group_pools, lines 274-282: the double check under the lock.
GroupDoubleCheck(t) ==
    /\ gthreads[t].pc = "pools_locked"
    /\ LET g == Head(gthreads[t].todo)
       IN IF IsGroupEntryFresh(pools_cache, g, gthreads[t].now)
          THEN /\ lock_holder' = [lock_holder EXCEPT ![g][gthreads[t].lock] = 0]
               /\ gthreads' = [gthreads EXCEPT ![t] =
                                 WithGroupPools(@, "hit", pools_cache[g].v.data)]
          ELSE /\ gthreads' = [gthreads EXCEPT ![t].pc = "pools_request"]
               /\ UNCHANGED lock_holder
    /\ UNCHANGED <<notGroup, groups_data, groups_last_fetch, groups_fetch_lock, pools_cache,
                   pools_fetch_locks, gclock, gcalls>>

\* _fetch_group_pools, lines 292-335: every page is answered; the pools are
\* filtered and the entry is written.
GroupFetchSucceeds(t) ==
    /\ gthreads[t].pc = "pools_request"
    /\ LET g == Head(gthreads[t].todo)
           filtered_pools == FilterGroupPools(GroupPoolsUpstream(g))
       IN /\ pools_cache' = [pools_cache EXCEPT ![g] =
                               Some([data |-> filtered_pools, last_fetch |-> gthreads[t].now])]
          /\ lock_holder' = [lock_holder EXCEPT ![g][gthreads[t].lock] = 0]
          /\ gthreads' = [gthreads EXCEPT ![t] = WithGroupPools(@, "fetched", filtered_pools)]
    /\ UNCHANGED <<notGroup, groups_data, groups_last_fetch, groups_fetch_lock,
                   pools_fetch_locks, gclock, gcalls>>

\* _fetch_group_pools, lines 337-345: requests.RequestException (connection
\* error, timeout, HTTP error status).
GroupFetchFails(t) ==
    /\ gthreads[t].pc = "pools_request"
    /\ LET g == Head(gthreads[t].todo)
           answer == GroupFetchFailure(pools_cache, g)
       IN /\ lock_holder' = [lock_holder EXCEPT ![g][gthreads[t].lock] = 0]
          /\ gthreads' = [gthreads EXCEPT ![t] =
                            LET call == [@ EXCEPT !.failed_cold =
                                            IF pools_cache[g] = None THEN @ \cup {g} ELSE @]
                            IN IF answer.kind = "raise"
                               THEN [call EXCEPT !.pc = "done", !.lock = 0,
                                                 !.result = Raised("RequestException")]
                               ELSE WithGroupPools(call, answer.kind, answer.pools)]
    /\ UNCHANGED <<notGroup, groups_data, groups_last_fetch, groups_fetch_lock, pools_cache,
                   pools_fetch_locks, gclock, gcalls>>

\* The caller takes the result; the thread is free for the next call.
GroupCallReturns(t) ==
    /\ gthreads[t].pc = "done"
    /\ gthreads' = [gthreads EXCEPT ![t].pc = "idle"]
    /\ UNCHANGED <<notGroup, groups_data, groups_last_fetch, groups_fetch_lock, pools_cache,
                   pools_fetch_locks, lock_holder, gclock, gcalls>>

\* Time passes.
GroupClockTick ==
    /\ gclock + GroupTimeStep <= MaxGroupTime
    /\ gclock' = gclock + GroupTimeStep
    /\ UNCHANGED <<notGroup, groups_data, groups_last_fetch, groups_fetch_lock, pools_cache,
                   pools_fetch_locks, lock_holder, gcalls, gthreads>>

(***************************************************************************)
(*   One pass of LiquidityExecutionService._process_queue over the rows   *)
(*   it finds, with every outcome of the dispatch of lines 124-147.       *)
(***************************************************************************)

\* The action_type column is free text: the four types _queue_action writes
\* and one it never writes, the else branch of the dispatch (line 141).
QueuedActionTypes == ActionTypes \cup {"swap"}

\* What a handler run can come to: it commits ("succeeded"); the provider
\* answers nothing and the handler raises before it touches the position
\* ("provider_failed"); a Python statement after the provider call raises
\* ("record_failed"); the database rejects the handler's UPDATE of the queue
\* row (lines 198, 260, 354), which aborts the transaction of the session
\* ("statement_rejected").
HandlerOutcomes == {"succeeded", "provider_failed", "record_failed", "statement_rejected"}

\* The message of the exception a handler raises (lines 171, 229, 300).
HandlerMessage(action, outcome) ==
    IF outcome = "provider_failed"
    THEN IF action \in {"take_profit", "stop_loss"} THEN "Failed to close position"
         ELSE IF action = "compound" THEN "Failed to compound position"
         ELSE "Failed to remove liquidity"
    ELSE IF outcome = "record_failed" THEN "error after the provider call"
    ELSE "current transaction is aborted"

\* _mark_failed (lines 368-382) on a session whose transaction is usable or
\* aborted: the UPDATE and its commit, or the except branch, which rolls
\* back and leaves the row as it was.
MarkFailedOnSession(q, p, message, usable) ==
    IF usable THEN MarkFailed(q, p, message) ELSE q

PassIdle ==
    pass = [pc |-> "idle", positions |-> <<>>, queue |-> {}, transactions |-> <<>>,
            rows |-> <<>>, handled |-> <<>>]

\* A queue with one pending row per position, of any action type, and the
\* liquidity_positions table with or without the position of each row (a
\* position goes with its user: ON DELETE CASCADE, models.py line 211).
PassInit ==
    \E types \in [Positions -> QueuedActionTypes], present \in [Positions -> BOOLEAN] :
        pass = [pc |-> "select",
                positions |-> [p \in Positions |->
                                 IF present[p]
                                 THEN Some([status |-> "active", liquidity_usd |-> 100,
                                            fees_earned_usd |-> 10, last_compound_at |-> None])
                                 ELSE None],
                queue |-> {NewRow(p, types[p], p) : p \in Positions},
                transactions |-> [p \in Positions |-> 0],
                rows |-> <<>>,
                handled |-> <<>>]

\* The row has been dealt with: the loop goes on or the pass ends.
PassAfterRow(outcome) ==
    [pc |-> IF Tail(pass.rows) = <<>> THEN "done" ELSE "mark",
     rows |-> Tail(pass.rows),
     handled |-> Append(pass.handled,
                        [position_address |-> Head(pass.rows).position_address,
                         action_type |-> Head(pass.rows).action_type,
                         outcome |-> outcome])]

\* _process_queue, lines 93-109.
PassSelectPending ==
    /\ pass.pc = "select"
    /\ pass' = [pass EXCEPT !.rows = PendingActions(pass.queue),
                            !.pc = IF PendingActions(pass.queue) = <<>> THEN "done" ELSE "mark"]
    /\ UNCHANGED notPass

\* _process_queue, lines 111-122.
PassMarkProcessing ==
    /\ pass.pc = "mark"
    /\ pass' = [pass EXCEPT !.queue = MarkProcessing(@, Head(pass.rows).position_address),
                            !.pc = "dispatch"]
    /\ UNCHANGED notPass

\* _process_queue, lines 124-132: the position of the row is gone.
PassPositionNotFound ==
    /\ pass.pc = "dispatch"
    /\ LET p == Head(pass.rows).position_address
           after == PassAfterRow("not_found")
       IN /\ pass.positions[p] = None
          /\ pass' = [pass EXCEPT !.queue = MarkFailedOnSession(@, p, "Position not found", TRUE),
                                  !.pc = after.pc, !.rows = after.rows,
                                  !.handled = after.handled]
    /\ UNCHANGED notPass

\* _process_queue, lines 141-143: no handler for the action type.
PassUnknownAction ==
    /\ pass.pc = "dispatch"
    /\ LET p == Head(pass.rows).position_address
           after == PassAfterRow("unknown_action")
       IN /\ pass.positions[p] # None
          /\ Head(pass.rows).action_type \notin ActionTypes
          /\ pass' = [pass EXCEPT !.queue = MarkFailedOnSession(@, p, "Unknown action: swap", TRUE),
                                  !.pc = after.pc, !.rows = after.rows,
                                  !.handled = after.handled]
    /\ UNCHANGED notPass

\* _process_queue, lines 134-140 and 145-147: the handler of the action type
\* runs and comes to `outcome`.
PassRunHandler(outcome) ==
    /\ pass.pc = "dispatch"
    /\ LET p == Head(pass.rows).position_address
           action == Head(pass.rows).action_type
           after == PassAfterRow(outcome)
           changed == Some(HandlerEffect(pass.positions[p].v, action, 0))
       IN /\ pass.positions[p] # None
          /\ action \in ActionTypes
          /\ pass' =
               IF outcome = "succeeded"
               THEN [pass EXCEPT !.positions[p] = changed,
                                 !.transactions[p] = @ + 1,
                                 !.queue = SetStatus(@, p, "completed"),
                                 !.pc = after.pc, !.rows = after.rows,
                                 !.handled = after.handled]
               ELSE [pass EXCEPT !.positions[p] = IF outcome = "record_failed" THEN changed ELSE @,
                                 !.queue = MarkFailedOnSession(@, p, HandlerMessage(action, outcome),
                                                               outcome # "statement_rejected"),
                                 !.pc = after.pc, !.rows = after.rows,
                                 !.handled = after.handled]
    /\ UNCHANGED notPass

(***************************************************************************)
(*   MonitoringService.load_active_monitors as one call over the rows of  *)
(*   monitoring_configs it finds when the process starts.                 *)
(***************************************************************************)
NumLoadWallets == 3

LoadWallets == 1..NumLoadWallets

\* monitoring_configs rows: interval_minutes is a nullable Integer column
\* (models.py line 84) that start_monitoring fills from the request without
\* a check (line 109), so a row holds a number of minutes or NULL.
LoadConfigRows ==
    {None} \cup {Some([enabled |-> en, interval_minutes |-> i]) :
                    en \in BOOLEAN, i \in {None, Some(15)}}

\* The orders in which a query without ORDER BY can list the wallets of ws.
RowOrders(ws) ==
    {o \in [1..Cardinality(ws) -> ws] : \A i, j \in DOMAIN o : i # j => o[i] # o[j]}

\* scheduler.add_job(trigger = 'interval', minutes = interval_minutes) builds
\* timedelta(minutes = interval_minutes), which raises TypeError for None.
AddJobRaises(interval_minutes) == interval_minutes = None

LoadIdle ==
    load = [pc |-> "idle", configs |-> <<>>, todo |-> <<>>, jobs |-> {}, failed |-> 0]

\* The scheduler of a new process has no monitor job (__init__, lines 31-35).
LoadInit ==
    \E cfgs \in [LoadWallets -> LoadConfigRows] :
        load = [pc |-> "query", configs |-> cfgs, todo |-> <<>>, jobs |-> {}, failed |-> 0]

\* The wallets whose config is enabled (lines 53-55).
LoadEnabled(cfgs) == {w \in LoadWallets : cfgs[w] # None /\ cfgs[w].v.enabled}

\* load_active_monitors, lines 53-57: the query for the enabled configs.
LoadQuery ==
    /\ load.pc = "query"
    /\ \E o \in RowOrders(LoadEnabled(load.configs)) :
          load' = [load EXCEPT !.todo = o, !.pc = IF o = <<>> THEN "done" ELSE "schedule"]
    /\ UNCHANGED notLoad

\* load_active_monitors, lines 59-69: _schedule_monitor for the next config.
LoadSchedule ==
    /\ load.pc = "schedule"
    /\ LET w == Head(load.todo)
           interval == load.configs[w].v.interval_minutes
       IN /\ ~AddJobRaises(interval)
          /\ load' = [load EXCEPT !.jobs = ScheduleMonitor(@, w, interval.v),
                                  !.todo = Tail(@),
                                  !.pc = IF Tail(load.todo) = <<>> THEN "done" ELSE "schedule"]
    /\ UNCHANGED notLoad

\* _schedule_monitor raises for the next config: the except clause of lines
\* 73-74 is outside the loop, so the call logs the error and ends.
LoadScheduleRaises ==
    /\ load.pc = "schedule"
    /\ LET w == Head(load.todo)
       IN /\ AddJobRaises(load.configs[w].v.interval_minutes)
          /\ load' = [load EXCEPT !.failed = w, !.pc = "done"]
    /\ UNCHANGED notLoad

(***************************************************************************)
(*   The notification round of a tick (_check_opportunities lines 265-280 *)
(*   with _send_telegram_notifications) over lists longer than the limit. *)
(***************************************************************************)
NumNotifyPools == 6

NotifyPools == 1..NumNotifyPools

\* The current list: the pools in ranked order, each at fee rate 100.
RankedCurrent == [i \in NotifyPools |-> Opp(i, 100)]

\* A previous snapshot: per pool, not listed ("absent"), listed at the same
\* rate ("same") or listed at half the rate ("lower").
PreviousFrom(seen) ==
    LET listed == SeqOfSet({i \in NotifyPools : seen[i] # "absent"})
    IN [n \in DOMAIN listed |->
          Opp(listed[n], IF seen[listed[n]] = "same" THEN 100 ELSE 50)]

\* A notification round that hands every opportunity to the bot.
NotificationBatchUnlimited(opps) == opps

\* _send_telegram_notifications, line 389: opportunities[:5].
NotificationBatch(opps) == SubSeq(opps, 1, Min(Len(opps), notification_limit))

NotifyIdle ==
    notify = [pc |-> "idle", user |-> FALSE, previous |-> <<>>, current |-> <<>>,
              new_opportunities |-> <<>>, batch |-> <<>>, messages |-> <<>>, raised |-> FALSE]

NotifyInit ==
    \E seen \in [NotifyPools -> {"absent", "same", "lower"}], user \in BOOLEAN :
        notify = [pc |-> "diff", user |-> user, previous |-> PreviousFrom(seen),
                  current |-> RankedCurrent, new_opportunities |-> <<>>, batch |-> <<>>,
                  messages |-> <<>>, raised |-> FALSE]

\* _check_opportunities, lines 265-280: the diff, then the call of
\* _send_telegram_notifications if the diff returned anything.
NotifyDiff ==
    /\ notify.pc = "diff"
    /\ LET found == FindNewOpportunities(notify.previous, notify.current,
                                         threshold_multiplier_default)
       IN notify' = [notify EXCEPT !.new_opportunities = found.new,
                                   !.pc = IF found.new # <<>> THEN "lookup" ELSE "done"]
    /\ UNCHANGED notNotify

\* _send_telegram_notifications, lines 381-389: the user lookup and the slice.
NotifyLookupUser ==
    /\ notify.pc = "lookup"
    /\ notify' = IF notify.user
                 THEN [notify EXCEPT !.batch = NotificationBatch(notify.new_opportunities),
                                     !.pc = "send"]
                 ELSE [notify EXCEPT !.pc = "done"]
    /\ UNCHANGED notNotify

\* _send_telegram_notifications, lines 389-404: the message of the next
\* opportunity.  send_notification answers True ("delivered") or False
\* ("sink_failed"), or the message cannot be built or sent ("raised"), which
\* ends the loop at the except clause of line 403.
NotifySend(res) ==
    /\ notify.pc = "send"
    /\ notify' =
         IF res = "raised"
         THEN [notify EXCEPT !.raised = TRUE, !.batch = <<>>, !.pc = "done"]
         ELSE [notify EXCEPT !.messages = Append(@, [address |-> Head(notify.batch).address,
                                                     result |-> res]),
                             !.batch = Tail(@),
                             !.pc = IF Tail(notify.batch) = <<>> THEN "done" ELSE "send"]
    /\ UNCHANGED notNotify

(***************************************************************************)
(*   The hourly snapshot cleanup (models.cleanup_old_snapshots, called by *)
(*   MonitoringService._cleanup_old_snapshots) against the inserts of the *)
(*   ticks, over tables with more rows than the sweep keeps.              *)
(***************************************************************************)
NumSweepWallets == 2
MaxSweepRows == 12
MaxSweepInserts == 2
MaxSweepClock == 13

\* cleanup_old_snapshots(db, keep_last_n=10)
keep_last_n == 10

SweepWallets == 1..NumSweepWallets

SnapshotRow(w, i, t) == [wallet_address |-> w, id |-> i, created_at |-> t]

RowsOfWallet(table, w) == {r \in table : r.wallet_address = w}

\* A row number taken over the whole table.
RowNumberUnpartitioned(table, r, low_id_first) ==
    1 + Cardinality({o \in table :
                        \/ o.created_at > r.created_at
                        \/ /\ o.created_at = r.created_at
                           /\ o # r
                           /\ IF low_id_first THEN o.id < r.id ELSE o.id > r.id})

\* ROW_NUMBER() OVER (PARTITION BY wallet_address ORDER BY created_at DESC).
\* The order among rows of equal created_at is not specified: by id, in
\* either direction.
RowNumber(table, r, low_id_first) ==
    1 + Cardinality({o \in RowsOfWallet(table, r.wallet_address) :
                        \/ o.created_at > r.created_at
                        \/ /\ o.created_at = r.created_at
                           /\ o # r
                           /\ IF low_id_first THEN o.id < r.id ELSE o.id > r.id})

\* The rows the DELETE of cleanup_old_snapshots selects: WHERE rn > keep_last_n.
RowsToDelete(table, low_id_first) ==
    {r \in table : RowNumber(table, r, low_id_first) > keep_last_n}

SweepIdle ==
    sweep = [pc |-> "off", table |-> {}, seen |-> {}, doomed |-> {}, clock |-> 0,
             inserts |-> 0, sweeps |-> 0]

\* Every wallet has written some snapshots, one per minute.
SweepInit ==
    \E n \in [SweepWallets -> 0..MaxSweepRows] :
        sweep = [pc |-> "idle",
                 table |-> UNION {{SnapshotRow(w, i, i) : i \in 1..n[w]} : w \in SweepWallets},
                 seen |-> {}, doomed |-> {}, clock |-> MaxSweepRows, inserts |-> 0,
                 sweeps |-> 0]

\* _check_opportunities, lines 283-293: a tick commits a snapshot of wallet w.
SweepTickInsert(w) ==
    /\ sweep.pc # "off"
    /\ sweep.inserts < MaxSweepInserts
    /\ sweep' = [sweep EXCEPT
                   !.table = @ \cup {SnapshotRow(w, MaxSweepRows + sweep.inserts + 1, sweep.clock)},
                   !.inserts = @ + 1]
    /\ UNCHANGED notSweep

\* cleanup_old_snapshots, lines 565-581: the statement reads the table.
SweepSelect ==
    /\ sweep.pc = "idle"
    /\ sweep.sweeps < 2
    /\ \E low_id_first \in BOOLEAN :
          sweep' = [sweep EXCEPT !.pc = "delete", !.seen = sweep.table,
                                 !.doomed = RowsToDelete(sweep.table, low_id_first),
                                 !.sweeps = @ + 1]
    /\ UNCHANGED notSweep

\* cleanup_old_snapshots, lines 581-585: the selected rows are deleted and the
\* deletion is committed.
SweepDelete ==
    /\ sweep.pc = "delete"
    /\ sweep' = [sweep EXCEPT !.pc = "idle", !.table = @ \ sweep.doomed]
    /\ UNCHANGED notSweep

\* Time passes.
SweepClockTick ==
    /\ sweep.pc # "off"
    /\ sweep.clock < MaxSweepClock
    /\ sweep' = [sweep EXCEPT !.clock = @ + 1]
    /\ UNCHANGED notSweep

(***************************************************************************)
(*   POST /api/opportunities/analyze (app.py analyze_opportunities): the  *)
(*   filter against the caller's current positions, lines 765-824.        *)
(*   Fee rates are integers (hundredths of a percent), the improvement    *)
(*   factor is a percentage (130 for 1.3).                                *)
(***************************************************************************)
\* MIN_IMPROVEMENT = 1.3
MIN_IMPROVEMENT == 130
\* opportunities[:20]
top_opportunities_limit == 20

AnalysisPools == <<"poolA", "poolB", "poolC">>

\* The candidates lines 699-763 build from the cached pools: per pool none,
\* or an opportunity with its fee rate, which is also its score.
CandidateLists ==
    {SelectSeq([i \in DOMAIN AnalysisPools |->
                   [address |-> AnalysisPools[i], feeRate30min |-> rate[i], score |-> rate[i]]],
               LAMBDA o : o.feeRate30min > 0) :
        rate \in [DOMAIN AnalysisPools -> {0, 100, 130, 131}]}

\* The entries of currentPositions in the request: the pool of the position
\* and the pool's fee rate, the latter possibly missing.
PositionEntries ==
    {[address |-> a, pool_feeRate30min |-> r] : a \in {"poolA", "poolB"}, r \in {None, Some(100)}}

PositionLists ==
    {<<>>} \cup {<<p>> : p \in PositionEntries}
           \cup {<<p, q>> : p \in PositionEntries, q \in PositionEntries}

\* safe_float(p.get('pool_feeRate30min', 0))
SafeFloat(value) == IF value = None THEN 0 ELSE value.v

\* max([...], default=0) over the positions' fee rates.
RECURSIVE BestFeeRate(_)
BestFeeRate(current_positions) ==
    IF current_positions = <<>> THEN 0
    ELSE LET rest == BestFeeRate(Tail(current_positions))
             first == SafeFloat(Head(current_positions).pool_feeRate30min)
         IN IF first > rest THEN first ELSE rest

\* An improvement test that lets a rate equal to the bar pass.
IsBetterOrEqual(opp, position_best_fee_rate) ==
    opp.feeRate30min * 100 >= position_best_fee_rate * MIN_IMPROVEMENT

\* is_better (line 803).
IsBetter(opp, position_best_fee_rate) ==
    opp.feeRate30min * 100 > position_best_fee_rate * MIN_IMPROVEMENT

\* Lines 766-770: the addresses of the current positions.
PositionAddresses(current_positions) ==
    {current_positions[i].address : i \in DOMAIN current_positions}

\* Lines 780-814: the filter, applied when currentPositions is not empty.
FilterByPositions(opportunities, current_positions) ==
    IF current_positions = <<>> THEN opportunities
    ELSE SelectSeq(opportunities,
                   LAMBDA opp : /\ opp.address \notin PositionAddresses(current_positions)
                                /\ IsBetter(opp, BestFeeRate(current_positions)))

\* opportunities.sort(key = score, reverse = True): stable, best first.
RECURSIVE SortByScore(_)
SortByScore(l) ==
    IF l = <<>> THEN <<>>
    ELSE LET i == CHOOSE n \in DOMAIN l :
                     /\ \A m \in DOMAIN l : l[m].score <= l[n].score
                     /\ \A m \in 1..(n - 1) : l[m].score < l[n].score
         IN <<l[i]>> \o SortByScore(SubSeq(l, 1, i - 1) \o SubSeq(l, i + 1, Len(l)))

AnalysisIdle ==
    analysis = [pc |-> "idle", opportunities |-> <<>>, current_positions |-> <<>>,
                top_opportunities |-> <<>>]

AnalysisInit ==
    \E candidates \in CandidateLists, held \in PositionLists :
        analysis = [pc |-> "filter", opportunities |-> candidates, current_positions |-> held,
                    top_opportunities |-> <<>>]

\* analyze_opportunities, lines 765-824: filter, sort, keep the top 20.
AnalyzeOpportunities ==
    /\ analysis.pc = "filter"
    /\ LET sorted == SortByScore(FilterByPositions(analysis.opportunities,
                                                   analysis.current_positions))
       IN analysis' = [analysis EXCEPT
                         !.top_opportunities =
                             SubSeq(sorted, 1, Min(Len(sorted), top_opportunities_limit)),
                         !.pc = "done"]
    /\ UNCHANGED notAnalysis

(***************************************************************************)
(*   One start_monitoring call for one wallet, with the interval the       *)
(*   request carries (config_data.get('interval_minutes', 15) is None for  *)
(*   a request with intervalMinutes: null) and a store that may reject     *)
(*   the commit.                                                           *)
(***************************************************************************)
RequestIntervals == {None, Some(15), Some(30)}

\* monitoring_configs row of the wallet: none, or enabled, interval_minutes
\* (nullable) and whether a tick has stored its timestamps.
StartingConfigRows ==
    {None} \cup {Some([enabled |-> en, interval_minutes |-> i, checked |-> c]) :
                    en \in BOOLEAN, i \in RequestIntervals, c \in BOOLEAN}

\* The job of the wallet: there is one only for an enabled config with an
\* interval.
StartingJobs(cfg) ==
    {None} \cup (IF cfg # None /\ cfg.v.enabled /\ cfg.v.interval_minutes # None
                 THEN {cfg.v.interval_minutes} ELSE {})

StartingIdle ==
    starting = [pc |-> "idle", user |-> FALSE, config |-> None, before |-> None, job |-> None,
                interval |-> None, ret |-> "none"]

\* The state in which start_monitoring is called: a config row exists only
\* with its user row (foreign key, ON DELETE CASCADE).
StartingInit ==
    \E user \in BOOLEAN, cfg \in StartingConfigRows, interval \in RequestIntervals :
        \E job \in StartingJobs(cfg) :
            /\ cfg # None => user
            /\ starting = [pc |-> "check_user", user |-> user, config |-> cfg, before |-> cfg,
                           job |-> job, interval |-> interval, ret |-> "none"]

\* start_monitoring, lines 98-114: the row the call builds.
StartingEnabledRow(cfg, interval) ==
    Some([enabled |-> TRUE, interval_minutes |-> interval,
          checked |-> IF cfg = None THEN FALSE ELSE cfg.v.checked])

\* start_monitoring, lines 92-96.
StartingLookupUser ==
    /\ starting.pc = "check_user"
    /\ starting' = IF starting.user
                   THEN [starting EXCEPT !.pc = "commit"]
                   ELSE [starting EXCEPT !.pc = "returned", !.ret = "False"]
    /\ UNCHANGED notStarting

\* start_monitoring, lines 98-116: get or create the config, enable it,
\* commit; a rejected commit reaches the except clause (rollback, False).
StartingCommit(accepted) ==
    /\ starting.pc = "commit"
    /\ starting' = IF accepted
                   THEN [starting EXCEPT !.pc = "schedule",
                                         !.config = StartingEnabledRow(starting.config,
                                                                       starting.interval)]
                   ELSE [starting EXCEPT !.pc = "returned", !.ret = "False"]
    /\ UNCHANGED notStarting

\* start_monitoring, line 119: _schedule_monitor replaces the job.
StartingSchedule ==
    /\ starting.pc = "schedule"
    /\ ~AddJobRaises(starting.interval)
    /\ starting' = [starting EXCEPT !.pc = "tick", !.job = starting.interval]
    /\ UNCHANGED notStarting

\* _schedule_monitor removes the existing job (lines 211-214) and add_job
\* raises; start_monitoring's except clause rolls back a session that has
\* nothing pending and answers False (lines 127-130).
StartingScheduleRaises ==
    /\ starting.pc = "schedule"
    /\ AddJobRaises(starting.interval)
    /\ starting' = [starting EXCEPT !.pc = "returned", !.job = None, !.ret = "False"]
    /\ UNCHANGED notStarting

\* start_monitoring, lines 122-125: the first tick, which catches its own
\* exceptions and stores its timestamps when it gets as far as its commit.
StartingFirstTick(persisted) ==
    /\ starting.pc = "tick"
    /\ starting' = [starting EXCEPT
                      !.pc = "returned", !.ret = "True",
                      !.config = IF persisted THEN Some([@.v EXCEPT !.checked = TRUE]) ELSE @]
    /\ UNCHANGED notStarting

(***************************************************************************)
(*   Degen monitoring: the ticks of _check_high_fee_pools for one wallet   *)
(*   (services/monitoring/degen_monitoring.py) over the JSONB column       *)
(*   DegenConfig.last_notified_pools.  Times are minutes.                  *)
(*                                                                         *)
(*   Assumption of this section: send_notification accepts the call of     *)
(*   line 473.  TelegramBotHandler.send_notification (telegram_bot.py      *)
(*   line 517) has no reply_markup parameter, so as the files stand that   *)
(*   call raises TypeError, caught at line 477, and no degen notification  *)
(*   is delivered; the model keeps the three outcomes of a send.           *)
(***************************************************************************)
NumDegenPools == 6
MaxDegenTicks == 3
MaxDegenClock == 45
DegenClockStep == 15

\* `time_diff > 30` (degen_monitoring.py line 376).
notified_window_minutes == 30
\* new_pools[:5] (line 387) and pools[:5] (line 414).
top_pools_limit == 5

\* The pools, numbered in the order of their fee rate, the highest first.
DegenPools == 1..NumDegenPools

\* How many pools are at or above the threshold in a tick.
HighFeeCounts == {0, 2, NumDegenPools}

\* The empty dict.
NoNotifiedPools == [p \in DegenPools |-> None]

DegenIdleTick ==
    [pc |-> "idle", current_time |-> 0, new_pools |-> <<>>, last_notified |-> NoNotifiedPools,
     in_place |-> FALSE, assigned |-> FALSE, sent |-> {}, recorded |-> {}]

\* The config row as start_monitoring leaves it: last_notified_pools = {}.
DegenInit ==
    degen = [clock |-> 0, ticks |-> 0, last_notified_pools |-> NoNotifiedPools,
             tick |-> DegenIdleTick]

DegenIdle == DegenInit

\* Python truthiness of the dict.
DictTruthy(d) == \E p \in DegenPools : d[p] # None

\* _check_high_fee_pools, lines 368-381: the pool was not notified, or more
\* than 30 minutes ago.
NotRecentlyNotified(d, p, t) == d[p] = None \/ t - d[p].v > notified_window_minutes

\* _check_high_fee_pools, lines 365-381: new_pools, in ranked order.
NewPools(d, n, t) == SeqOfSet({p \in 1..n : NotRecentlyNotified(d, p, t)})

\* _check_high_fee_pools, lines 378 and 381: every new pool gets
\* last_notified[pool_address] = current_time.
MarkNotified(d, new, t) ==
    [p \in DegenPools |-> IF \E i \in 1..Len(new) : new[i] = p THEN Some(t) ELSE d[p]]

\* _check_high_fee_pools, lines 296-383: the config is loaded, the pools at
\* or above the threshold are ranked (the first n), those notified within
\* the window are dropped, the others are marked in the local dict.
CheckHighFeePools(n) ==
    /\ degen.tick.pc = "idle"
    /\ degen.ticks < MaxDegenTicks
    /\ LET stored == degen.last_notified_pools
           new == NewPools(stored, n, degen.clock)
       IN degen' = [degen EXCEPT
                      !.ticks = @ + 1,
                      !.tick = [DegenIdleTick EXCEPT
                                  !.pc = IF new # <<>> THEN "notify" ELSE "commit",
                                  !.current_time = degen.clock,
                                  !.new_pools = new,
                                  !.in_place = DictTruthy(stored),
                                  !.last_notified = MarkNotified(stored, new, degen.clock)]]
    /\ UNCHANGED notDegen

DegenSendResults == {"delivered", "sink_failed", "raised"}

\* _check_high_fee_pools, lines 386-391, with _send_telegram_notification:
\* one message for the first five new pools; a send that answers False or
\* raises is logged (lines 477-478); then config.last_notified_pools is set.
SendTelegramNotification(res) ==
    /\ degen.tick.pc = "notify"
    /\ degen' = [degen EXCEPT
                   !.tick.pc = "commit",
                   !.tick.assigned = TRUE,
                   !.tick.sent = IF res = "delivered"
                                 THEN {degen.tick.new_pools[i] :
                                          i \in 1..Min(Len(degen.tick.new_pools), top_pools_limit)}
                                 ELSE {}]
    /\ UNCHANGED notDegen

\* _check_high_fee_pools, lines 393-405: the commit.  A dict built by
\* `or {}` is a new value of the column and is written.  A loaded dict that
\* was changed in place and assigned back is the same object the ORM holds
\* as the old value (the column is plain JSONB, no mutation tracking):
\* whether the change is written is left open (`tracked`).  A rejected
\* commit is rolled back.
CommitCheck(accepted, tracked) ==
    /\ degen.tick.pc = "commit"
    /\ LET written == /\ accepted
                      /\ degen.tick.assigned
                      /\ (~degen.tick.in_place \/ tracked)
           after == IF written THEN degen.tick.last_notified ELSE degen.last_notified_pools
       IN degen' = [degen EXCEPT
                      !.last_notified_pools = after,
                      !.tick.pc = "done",
                      !.tick.recorded = {p \in DegenPools :
                                            after[p] # degen.last_notified_pools[p]}]
    /\ UNCHANGED notDegen

\* _check_high_fee_pools returns (finally: db.close()).
DegenTickReturns ==
    /\ degen.tick.pc = "done"
    /\ degen' = [degen EXCEPT !.tick = DegenIdleTick]
    /\ UNCHANGED notDegen

\* Time passes between two ticks.
DegenClockTick ==
    /\ degen.tick.pc = "idle"
    /\ degen.clock + DegenClockStep <= MaxDegenClock
    /\ degen' = [degen EXCEPT !.clock = @ + DegenClockStep]
    /\ UNCHANGED notDegen

vars == <<cacheVars, queueVars, monVars, apiVars, diff, check, pass, groupVars, load, notify, sweep, analysis, starting, degen>>

Init ==
    CacheInit /\ QueueInit /\ MonInit /\ ApiInit /\ DiffIdle /\ CheckIdle /\ PassIdle /\ DegenIdle /\ StartingIdle /\ AnalysisIdle /\ SweepIdle /\ NotifyIdle /\ LoadIdle /\ GroupInit

CacheNext ==
    \/ \E t \in Threads, force \in BOOLEAN : GetPools(t, force)
    \/ \E t \in Threads : CheckFresh(t)
    \/ \E t \in Threads : ReturnHit(t)
    \/ \E t \in Threads : AcquireLock(t)
    \/ \E t \in Threads : DoubleCheck(t)
    \/ \E t \in Threads, raw \in RawResponses : FetchSucceeds(t, raw)
    \/ \E t \in Threads : StoreFetch(t)
    \/ \E t \in Threads : FetchFails(t)
    \/ \E t \in Threads : CallReturns(t)
    \/ ClockTick

CacheSpec == Init /\ [][CacheNext]_vars

QueueNextFor(running) ==
    \/ MonitorStart
    \/ \E data \in PositionDataValues : CheckPosition(data)
    \/ CompoundStart
    \/ CheckCompound
    \/ \E enabled \in BOOLEAN : UpdateAutomationConfig(enabled)
    \/ \E w \in running : SelectPending(w)
    \/ \E w \in running : ClaimEntry(w)
    \/ \E w \in running : ExecuteSucceeds(w)
    \/ \E w \in running : ExecuteProviderFails(w)
    \/ \E w \in running : ExecuteRecordFails(w)
    \/ HourTick

\* Several worker processes drain the same queue.
QueueNext == QueueNextFor(Workers)

QueueSpec == Init /\ [][QueueNext]_vars

\* One worker process: the scheduler of LiquidityExecutionService runs
\* _process_queue with max_instances = 1.
SerialQueueNext == QueueNextFor({1})

SerialQueueSpec == Init /\ [][SerialQueueNext]_vars

MonNext ==
    \/ \E w \in TickWallets : TelegramStart(w)
    \/ \E w \in TickWallets : TelegramStop(w)
    \/ \E w \in TickWallets, k \in TickSlots, interval \in IntervalChoices : StartMonitoring(w, k, interval)
    \/ \E w \in TickWallets : StopMonitoringCommit(w)
    \/ \E w \in TickWallets : StopMonitoringRemoveJob(w)
    \/ LoadActiveMonitors
    \/ \E w \in TickWallets, k \in TickSlots : TimerFires(w, k)
    \/ \E k \in TickSlots : ReadConfig(k)
    \/ \E k \in TickSlots, opps \in OpportunityLists : FetchOpportunities(k, opps)
    \/ \E k \in TickSlots : FetchOpportunitiesFails(k)
    \/ \E k \in TickSlots : DiffSnapshot(k)
    \/ \E k \in TickSlots, res \in NotificationResults : SendNotifications(k, res)
    \/ \E k \in TickSlots, accepted \in BOOLEAN : PersistTick(k, accepted)
    \/ \E k \in TickSlots : TickReturns(k)

MonSpec == Init /\ [][MonNext]_vars

ApiNext ==
    \/ \E w \in Wallets, interval \in StartIntervals : StartCall(w, interval)
    \/ StartCheckUser
    \/ StartCommitConfig
    \/ \E k \in TickSlots : StartSchedule(k)
    \/ StartReturn
    \/ \E w \in Wallets : StopCall(w)
    \/ StopCommitConfig
    \/ StopRemoveJob
    \/ ProcessRestart
    \/ LoadMonitors
    \/ ApiReturns
    \/ \E w \in Wallets : LinkUser(w)
    \/ \E w \in Wallets : UnlinkUser(w)
    \/ \E k \in TickSlots : ReadConfig(k)
    \/ \E k \in TickSlots, opps \in OpportunityLists : FetchOpportunities(k, opps)
    \/ \E k \in TickSlots : FetchOpportunitiesFails(k)
    \/ \E k \in TickSlots : DiffSnapshot(k)
    \/ \E k \in TickSlots, res \in NotificationResults : SendNotifications(k, res)
    \/ \E k \in TickSlots, accepted \in BOOLEAN : PersistTick(k, accepted)

ApiSpec == Init /\ [][ApiNext]_vars

DiffNext == DiffCompute

\* The other subsystems at rest, the diff with its arguments drawn.
DiffStart ==
    CacheInit /\ QueueInit /\ MonInit /\ ApiInit /\ DiffInit /\ CheckIdle /\ PassIdle /\ DegenIdle /\ StartingIdle /\ AnalysisIdle /\ SweepIdle /\ NotifyIdle /\ LoadIdle /\ GroupInit

DiffSpec == DiffStart /\ [][DiffNext]_vars

CheckNext == \E data \in CheckDataValues : CheckPositionRules(data)

\* The other subsystems at rest, the monitoring cycle with its rules drawn.
CheckStart ==
    CacheInit /\ QueueInit /\ MonInit /\ ApiInit /\ DiffIdle /\ CheckInit /\ PassIdle /\ DegenIdle /\ StartingIdle /\ AnalysisIdle /\ SweepIdle /\ NotifyIdle /\ LoadIdle /\ GroupInit

CheckSpec == CheckStart /\ [][CheckNext]_vars

PassNext ==
    \/ PassSelectPending
    \/ PassMarkProcessing
    \/ PassPositionNotFound
    \/ PassUnknownAction
    \/ \E outcome \in HandlerOutcomes : PassRunHandler(outcome)

\* The other subsystems at rest, a pass over a drawn queue.
PassStart ==
    CacheInit /\ QueueInit /\ MonInit /\ ApiInit /\ DiffIdle /\ CheckIdle /\ PassInit /\ DegenIdle /\ StartingIdle /\ AnalysisIdle /\ SweepIdle /\ NotifyIdle /\ LoadIdle /\ GroupInit

PassSpec == PassStart /\ [][PassNext]_vars

LoadNext ==
    \/ LoadQuery
    \/ LoadSchedule
    \/ LoadScheduleRaises

\* The other subsystems at rest, a start of the process over drawn configs.
LoadStart ==
    CacheInit /\ QueueInit /\ MonInit /\ ApiInit /\ DiffIdle /\ CheckIdle /\ PassIdle /\ DegenIdle /\ StartingIdle /\ AnalysisIdle /\ SweepIdle /\ NotifyIdle /\ LoadInit /\ GroupInit

LoadSpec == LoadStart /\ [][LoadNext]_vars

NotifyNext ==
    \/ NotifyDiff
    \/ NotifyLookupUser
    \/ \E res \in NotificationResults : NotifySend(res)

\* The other subsystems at rest, a notification round over drawn lists.
NotifyStart ==
    CacheInit /\ QueueInit /\ MonInit /\ ApiInit /\ DiffIdle /\ CheckIdle /\ PassIdle /\ DegenIdle /\ StartingIdle /\ AnalysisIdle /\ SweepIdle /\ NotifyInit /\ LoadIdle /\ GroupInit

NotifySpec == NotifyStart /\ [][NotifyNext]_vars

SweepNext ==
    \/ \E w \in SweepWallets : SweepTickInsert(w)
    \/ SweepSelect
    \/ SweepDelete
    \/ SweepClockTick

\* The other subsystems at rest, the cleanup over drawn tables.
SweepStart ==
    CacheInit /\ QueueInit /\ MonInit /\ ApiInit /\ DiffIdle /\ CheckIdle /\ PassIdle /\ DegenIdle /\ StartingIdle /\ AnalysisIdle /\ SweepInit /\ NotifyIdle /\ LoadIdle /\ GroupInit

SweepSpec == SweepStart /\ [][SweepNext]_vars

AnalysisNext == AnalyzeOpportunities

\* The other subsystems at rest, one analysis over drawn lists.
AnalysisStart ==
    CacheInit /\ QueueInit /\ MonInit /\ ApiInit /\ DiffIdle /\ CheckIdle /\ PassIdle /\ DegenIdle /\ StartingIdle /\ AnalysisInit /\ SweepIdle /\ NotifyIdle /\ LoadIdle /\ GroupInit

AnalysisSpec == AnalysisStart /\ [][AnalysisNext]_vars

StartingNext ==
    \/ StartingLookupUser
    \/ \E accepted \in BOOLEAN : StartingCommit(accepted)
    \/ StartingSchedule
    \/ StartingScheduleRaises
    \/ \E persisted \in BOOLEAN : StartingFirstTick(persisted)

\* The other subsystems at rest, one start_monitoring call.
StartingStart ==
    CacheInit /\ QueueInit /\ MonInit /\ ApiInit /\ DiffIdle /\ CheckIdle /\ PassIdle /\ DegenIdle /\ AnalysisIdle /\ SweepIdle /\ NotifyIdle /\ LoadIdle /\ GroupInit /\ StartingInit

StartingSpec == StartingStart /\ [][StartingNext]_vars

DegenNext ==
    \/ \E n \in HighFeeCounts : CheckHighFeePools(n)
    \/ \E res \in DegenSendResults : SendTelegramNotification(res)
    \/ \E accepted \in BOOLEAN, tracked \in BOOLEAN : CommitCheck(accepted, tracked)
    \/ DegenTickReturns
    \/ DegenClockTick

DegenSpec == Init /\ [][DegenNext]_vars

GroupNext ==
    \/ \E t \in GroupThreads, force \in BOOLEAN : GroupedGetPools(t, force)
    \/ \E t \in GroupThreads : AcquireGroupsLock(t)
    \/ \E t \in GroupThreads : GroupsDoubleCheck(t)
    \/ \E t \in GroupThreads, raw \in {<<>>, GroupCatalogue} : GroupsFetchSucceeds(t, raw)
    \/ \E t \in GroupThreads : GroupsFetchFails(t)
    \/ \E t \in GroupThreads : ReturnAggregate(t)
    \/ \E t \in GroupThreads : GetGroupPools(t)
    \/ \E t \in GroupThreads : CheckGroupLock(t)
    \/ \E t \in GroupThreads : CreateGroupLock(t)
    \/ \E t \in GroupThreads : AcquireGroupLock(t)
    \/ \E t \in GroupThreads : GroupDoubleCheck(t)
    \/ \E t \in GroupThreads : GroupFetchSucceeds(t)
    \/ \E t \in GroupThreads : GroupFetchFails(t)
    \/ \E t \in GroupThreads : GroupCallReturns(t)
    \/ GroupClockTick

GroupSpec == Init /\ [][GroupNext]_vars

\* C1: K >= 2 threads that call get_pools concurrently on a cold cache, with
\* every upstream request answered successfully, cause exactly one upstream
\* request and all return the same pool list.
C1_ColdSingleFlight ==
    ((\A t \in Threads : pc[t] = "done" /\ cold[t]) /\ ~upstream_failed)
        => /\ upstream_calls = 1
           /\ \A t, u \in Threads :
                 result[t].kind = "return" /\ result[t] = result[u]

\* C2: a call with force_refresh=False that begins while the cache holds data
\* younger than the TTL issues no upstream request and returns the cached list.
C2_FreshCallIsHit ==
    \A t \in Threads :
        fresh_call[t] =>
            /\ ~issued[t]
            /\ pc[t] \in {"check", "hit", "done", "idle"}
            /\ pc[t] \in {"done", "idle"} =>
                   (result[t].kind = "return" /\ result[t].value # None)

C2_Witness ==
    \E t \in Threads :
        /\ pc[t] = "done" /\ fresh_call[t] /\ result[t].kind = "return"
        /\ upstream_calls = 1 /\ calls = MaxCalls

\* C3: a failed upstream fetch returns the previous result whenever one exists
\* (whatever it holds, an empty list included) and raises only when none exists.
C3_StaleFallback ==
    \A t \in Threads :
        pc[t] = "done" =>
            /\ fetch_failed[t] = "with_previous" => result[t].kind = "return"
            /\ fetch_failed[t] = "without_previous" =>
                   (result[t].kind = "raise" /\ result[t].exc = "RequestException")

\* C4: with several workers draining the same queue, every entry is moved
\* from pending to processing by exactly one worker and its handler runs at
\* most once per enqueue.
C4_ClaimedByOneWorker ==
    \A p \in Positions : claim_count[p] <= 1 /\ exec_count[p] <= 1

\* position_address is unique in the queue.
C5_AtMostOneRow == \A p \in Positions : Cardinality(RowsOf(queue, p)) <= 1

\* What a _queue_action call leaves behind.
C5_EnqueueResult ==
    enqueues' # enqueues =>
        LET e == last_enqueue'.v
        IN \E r \in queue' :
              /\ RowsOf(queue', e.position_address) = {r}
              /\ r.action_type = e.action_type
              /\ r.status = "pending"

\* C5: the queue holds at most one row per position, and a _queue_action
\* call for position P with action B leaves exactly one row for P, of type B
\* and pending (also when an entry with another action was pending for P).
C5_QueueUpsert == [](C5_AtMostOneRow) /\ [][C5_EnqueueResult]_vars

C5_Witness ==
    /\ last_enqueue # None
    /\ last_enqueue.v.replaced \notin {"", last_enqueue.v.action_type}
    /\ \E r \in queue :
          /\ RowsOf(queue, last_enqueue.v.position_address) = {r}
          /\ r.action_type = last_enqueue.v.action_type
          /\ r.status = "pending"

\* A failed entry is failed after the step.
C6_FailedStaysFailed ==
    \A p \in Positions :
        (\E r \in RowsOf(queue, p) : r.status = "failed")
            => (\A r \in RowsOf(queue', p) : r.status = "failed")

LastCheck(cfgs, w) == IF cfgs[w] = None THEN None ELSE cfgs[w].v.last_check
NextCheck(cfgs, w) == IF cfgs[w] = None THEN None ELSE cfgs[w].v.next_check

\* The step adds a snapshot row for the wallet / stores new timestamps.
SnapshotWritten(w) == Len(snapshots'[w]) > Len(snapshots[w])
TimestampsUpdated(w) ==
    /\ configs'[w] # None
    /\ \/ LastCheck(configs', w) # LastCheck(configs, w)
       \/ NextCheck(configs', w) # NextCheck(configs, w)

\* The tick of slot k ends in this step with one of the given outcomes.
TickEndsWith(k, outcomes) ==
    ticks[k].outcome = "none" /\ ticks'[k].outcome \in outcomes

\* The config lookup of a tick whose config is disabled or removed.
C7_NoOpStep ==
    \A k \in TickSlots :
        (/\ ticks[k].pc = "read_config"
         /\ ticks'[k].pc # "read_config"
         /\ \/ configs[ticks[k].wallet] = None
            \/ ~configs[ticks[k].wallet].v.enabled)
        => /\ ticks'[k].pc = "done"
           /\ ticks'[k].outcome = "noop"
           /\ ticks'[k].sent = 0
           /\ snapshots' = snapshots
           /\ configs' = configs

\* C7: a tick that finds the wallet's config disabled or removed is a no-op:
\* its config lookup ends the run without an error, with no snapshot
\* written, no config field changed and no notification sent.
C7_DisabledTickIsNoOp == [][C7_NoOpStep]_vars

C7_Witness ==
    \E k \in TickSlots :
        /\ ticks[k].pc = "done"
        /\ ticks[k].origin = "timer"
        /\ ticks[k].outcome = "noop"
        /\ jobs[ticks[k].wallet]
        /\ configs[ticks[k].wallet] # None
        /\ ~configs[ticks[k].wallet].v.enabled
        /\ snapshots[ticks[k].wallet] # <<>>

\* C8: no two runs of _check_opportunities for the same wallet are in
\* progress at the same time.
C8_TicksNeverOverlap ==
    \A j, k \in TickSlots :
        (j # k /\ TickActive(j) /\ TickActive(k)) => ticks[j].wallet # ticks[k].wallet

\* Snapshot and timestamps are written together, by a completing tick only.
C9_AtomicStep ==
    /\ \A w \in Wallets : SnapshotWritten(w) <=> TimestampsUpdated(w)
    /\ \A w \in Wallets :
          SnapshotWritten(w) =>
              \E k \in TickSlots : ticks[k].wallet = w /\ TickEndsWith(k, {"persisted"})
    /\ \A k \in TickSlots :
          TickEndsWith(k, {"fetch_failed", "error", "commit_rejected"})
              => (snapshots' = snapshots /\ configs' = configs)
    /\ \A k \in TickSlots :
          TickEndsWith(k, {"persisted"})
              => (SnapshotWritten(ticks[k].wallet) /\ TimestampsUpdated(ticks[k].wallet))

\* C9: a tick persists all or nothing: a step writes a snapshot exactly when
\* it stores new timestamps, only the step in which a tick completes writes
\* either, and a tick that ends with a failed fetch, an exception or a
\* rejected commit leaves snapshots and configs as they were.
C9_AllOrNothing == [][C9_AtomicStep]_vars

C9_Witness ==
    \E k \in TickSlots :
        /\ ticks[k].pc = "done"
        /\ ticks[k].outcome = "error"
        /\ Len(snapshots[ticks[k].wallet]) = 1
        /\ LastCheck(configs, ticks[k].wallet) = Some(snapshots[ticks[k].wallet][1].created_at)

\* The notification step always hands over to the persistence step.
C10_NotifyStep ==
    \A k \in TickSlots :
        (ticks[k].pc = "notify" /\ ticks'[k].pc # "notify")
            => (ticks'[k].pc = "persist" /\ ticks'[k].outcome = "none")

\* A tick with a failed notification that completes writes both.
C10_PersistStep ==
    \A k \in TickSlots :
        (ticks[k].notify_failed /\ TickEndsWith(k, {"persisted"}))
            => (SnapshotWritten(ticks[k].wallet) /\ TimestampsUpdated(ticks[k].wallet))

\* A finished tick with a failed notification was not stopped by it.
C10_FailedNotifyEnds ==
    \A k \in TickSlots :
        (ticks[k].pc = "done" /\ ticks[k].notify_failed)
            => ticks[k].outcome \in {"persisted", "commit_rejected"}

\* C10: a failed notification does not abort the tick: the run goes on to
\* the persistence step, and ends with the snapshot and the timestamps
\* written unless the store itself rejects the commit.
C10_NotificationFailureKeepsTick ==
    [](C10_FailedNotifyEnds) /\ [][C10_NotifyStep /\ C10_PersistStep]_vars

C10_Witness ==
    \E k \in TickSlots :
        /\ ticks[k].pc = "done"
        /\ ticks[k].notify_failed
        /\ ticks[k].outcome = "persisted"
        /\ snapshots[ticks[k].wallet] # <<>>
        /\ LastCheck(configs, ticks[k].wallet) = Some(minutes)

\* The lifecycle call of the given kind has its answer.
Returned_(op) == api.op = op /\ api.pc = "returned"

\* The step starts or ends a tick, or writes what a tick writes.
TickTouched ==
    \/ ticks' # ticks
    \/ ticks_started' # ticks_started
    \/ snapshots' # snapshots

\* C11: start_monitoring for a wallet without a linked user answers False and
\* changes nothing: the step that finds no user ends the call, and leaves
\* configs, job store and ticks as they were.
C11_StartWithoutUser ==
    [][(/\ api.op = "start" /\ api.pc = "check_user"
        /\ ~users[api.wallet]
        /\ api' # api)
       => /\ api'.pc = "returned" /\ api'.ret = "False"
          /\ configs' = configs
          /\ scheduler_jobs' = scheduler_jobs /\ jobs' = jobs
          /\ ~TickTouched]_vars

C11_Witness ==
    /\ Returned_("start")
    /\ api.ret = "False"
    /\ ~users[api.wallet]
    /\ configs[api.wallet] = None
    /\ JobsOf(scheduler_jobs, api.wallet) = {}

\* The step in which start_monitoring answers True.
StartSucceeds == api.op = "start" /\ api.pc = "tick" /\ api'.pc = "returned" /\ api'.ret = "True"

\* C12: when start_monitoring answers True the stored config is enabled with
\* the requested interval, the job store holds exactly one job for the
\* wallet, at that interval (also when the wallet had a job before), and the
\* call has run one tick for the wallet to its end.
C12_StartPostcondition ==
    [][StartSucceeds =>
          /\ configs'[api.wallet] # None
          /\ configs'[api.wallet].v.enabled
          /\ configs'[api.wallet].v.interval_minutes = api.interval
          /\ JobsOf(scheduler_jobs', api.wallet) = {[id |-> api.wallet, minutes |-> api.interval]}
          /\ ticks[api.slot].pc = "done"
          /\ ticks[api.slot].wallet = api.wallet
          /\ ticks[api.slot].origin = "start"]_vars

C12_Witness ==
    /\ Returned_("start")
    /\ api.ret = "True"
    /\ api.had_jobs # {}
    /\ \A j \in api.had_jobs : j.minutes # api.interval
    /\ JobsOf(scheduler_jobs, api.wallet) = {[id |-> api.wallet, minutes |-> api.interval]}

\* C13: stop_monitoring answers True and leaves the wallet stopped (its
\* config, if it has one, disabled and no job in the job store), whether the
\* wallet was running, was stopped already or was never started; it creates
\* no config.
C13_StopIdempotent ==
    Returned_("stop") =>
        /\ api.ret = "True"
        /\ (configs[api.wallet] # None) = api.had_config
        /\ configs[api.wallet] # None => ~configs[api.wallet].v.enabled
        /\ JobsOf(scheduler_jobs, api.wallet) = {}

C13_Witness ==
    /\ Returned_("stop")
    /\ api.ret = "True"
    /\ api.had_config /\ ~api.was_enabled /\ api.had_jobs = {}
    /\ snapshots[api.wallet] # <<>>

ImprovedAddresses(r) ==
    {r.new[i].address : i \in {n \in 1..Len(r.new) : r.new[n].reason = "Fee rate improved"}}

\* C15: for the same previous snapshot and current list, the opportunities
\* flagged as improved with the higher threshold are among those flagged
\* with the lower one, and the diff fails with both thresholds or with none.
C15_ThresholdMonotone ==
    diff.pc = "done" =>
        /\ ImprovedAddresses(diff.with_high) \subseteq ImprovedAddresses(diff.with_low)
        /\ Len(diff.with_high.new) <= Len(diff.with_low.new)
        /\ diff.with_high.raised = diff.with_low.raised

C15_Witness ==
    /\ diff.pc = "done"
    /\ diff.low < diff.high
    /\ ImprovedAddresses(diff.with_low) # {}
    /\ ImprovedAddresses(diff.with_high) # ImprovedAddresses(diff.with_low)

\* What the diff is to return: the current opportunities that are new, or
\* present before with a rate above the previous rate times the threshold.
RECURSIVE IndexOfAddress(_, _, _)
IndexOfAddress(l, a, i) ==
    IF i > Len(l) THEN 0 ELSE IF l[i].address = a THEN i ELSE IndexOfAddress(l, a, i + 1)

Notifiable(previous, opp, threshold) ==
    LET i == IndexOfAddress(previous, opp.address, 1)
    IN i = 0 \/ opp.feeRate30min * 100 > previous[i].feeRate30min * threshold

RECURSIVE ExpectedDiff(_, _, _)
ExpectedDiff(previous, current, threshold) ==
    IF current = <<>> THEN <<>>
    ELSE (IF Notifiable(previous, Head(current), threshold)
          THEN <<[address |-> Head(current).address, feeRate30min |-> Head(current).feeRate30min]>>
          ELSE <<>>) \o ExpectedDiff(previous, Tail(current), threshold)

StripReason(l) ==
    [i \in 1..Len(l) |-> [address |-> l[i].address, feeRate30min |-> l[i].feeRate30min]]

\* C16: the diff returns exactly the current opportunities that are new or
\* improved, in their order and each with a reason.
C16_DiffIsExact ==
    diff.pc = "done" =>
        /\ ~diff.with_low.raised
        /\ StripReason(diff.with_low.new) = ExpectedDiff(diff.previous, diff.current, diff.low)
        /\ \A i \in 1..Len(diff.with_low.new) :
              diff.with_low.new[i].reason \in {"New pool discovered", "Fee rate improved"}

\* The action types of the _queue_action calls the cycle made for a position.
EnqueuedFor(p) ==
    LET calls_p == SelectSeq(check.enqueued, LAMBDA c : c.position_address = p)
    IN [i \in 1..Len(calls_p) |-> calls_p[i].action_type]

\* The position has been handled by the cycle.
Checked(p) == \A i \in 1..Len(check.todo) : check.todo[i] # p

\* The one action the priority of the rules selects for a handled position
\* whose data was fetched; with `typed`, a take-profit or stop-loss rule
\* counts only when its type is 'percentage'.
PriorityAction(p, typed) ==
    LET r == check.rules[p].v
        profit == ProfitPercentage(OpenedPosition, check.data[p].v)
        fees == check.data[p].v.feesUSD
        take_profit == /\ r.take_profit_enabled
                       /\ profit >= r.take_profit_value
                       /\ typed => r.take_profit_type = "percentage"
        stop_loss == /\ r.stop_loss_enabled
                     /\ profit <= r.stop_loss_value
                     /\ typed => r.stop_loss_type = "percentage"
        rebalance == /\ r.rebalancing_enabled
                     /\ \E i \in 1..Len(r.rebalance_triggers) :
                           /\ r.rebalance_triggers[i].type = "fee_threshold"
                           /\ fees >= r.rebalance_triggers[i].value
    IN IF take_profit THEN <<"take_profit">>
       ELSE IF stop_loss THEN <<"stop_loss">>
       ELSE IF rebalance THEN <<"rebalance">>
       ELSE <<>>

EnqueuedByPriority(typed) ==
    \A p \in CheckedPositions :
        /\ Len(EnqueuedFor(p)) <= 1
        /\ Checked(p) /\ check.data[p] # None => EnqueuedFor(p) = PriorityAction(p, typed)
        /\ check.data[p] = None => EnqueuedFor(p) = <<>>

C18_ForcedCallFetches ==
    \A t \in Threads : pc[t] = "done" /\ force_refresh[t] => issued[t]

\* A pool that is not hidden, not blacklisted and has the minimum TVL.
PassesFilters(pool) ==
    /\ ~pool.hide
    /\ ~pool.is_blacklisted
    /\ pool.liquidity >= 100

AllPass(list) == \A i \in 1..Len(list) : PassesFilters(list[i])

RECURSIVE PoolsOfLookups(_)
PoolsOfLookups(lookups) ==
    IF lookups = <<>> THEN <<>>
    ELSE Head(lookups).pools \o PoolsOfLookups(Tail(lookups))

\* C20: a get_pools call during which the request for a group failed while
\* the group had no cached entry does not raise: the lookup of that group
\* has answered the empty list, the loop has gone on over every group, and
\* the result holds the pools of every other group's answer.
C20_FailedGroupLeavesOthers ==
    \A t \in GroupThreads :
        LET call == gthreads[t]
        IN call.pc = "done" /\ call.failed_cold # {} =>
              /\ call.result.kind = "return"
              /\ call.todo = <<>>
              /\ \A i \in 1..Len(call.lookups) :
                    call.lookups[i].group \in call.failed_cold => call.lookups[i].pools = <<>>
              /\ call.result.value = PoolsOfLookups(call.lookups)

\* The request for one group failed with no entry for it, and the call has
\* returned the pools it fetched for another group.
C20_Witness ==
    \E t \in GroupThreads :
        /\ gthreads[t].pc = "done"
        /\ gthreads[t].failed_cold # {}
        /\ gthreads[t].result.kind = "return"
        /\ \E i \in 1..Len(gthreads[t].lookups) :
              /\ gthreads[t].lookups[i].how = "fetched"
              /\ gthreads[t].lookups[i].pools # <<>>
              /\ \E k \in 1..Len(gthreads[t].result.value) :
                    gthreads[t].result.value[k] = gthreads[t].lookups[i].pools[1]

\* The threads whose request for the pools of a group is in flight.
InFlight(g) ==
    {t \in GroupThreads : gthreads[t].pc = "pools_request" /\ Head(gthreads[t].todo) = g}

\* C21: at most one upstream request for the pools of a given group is in
\* flight at any time.
C21_OneFetchPerGroup ==
    \A g \in GroupIds : Cardinality(InFlight(g)) <= 1

\* The queue row of a position in the pass's queue table.
PassRow(p) == CHOOSE r \in pass.queue : r.position_address = p

C22_MarkedUnlessRejected ==
    \A i \in DOMAIN pass.handled :
        LET h == pass.handled[i]
            r == PassRow(h.position_address)
        IN h.outcome # "statement_rejected" =>
              IF h.outcome = "succeeded"
              THEN r.status = "completed" /\ pass.transactions[h.position_address] = 1
              ELSE r.status = "failed" /\ r.error_message # ""

\* The wallets load_active_monitors can schedule: enabled, with an interval.
Schedulable(w) ==
    /\ w \in LoadEnabled(load.configs)
    /\ load.configs[w].v.interval_minutes # None

\* C23: a failure while the monitor of one wallet is being scheduled leaves
\* the timers of the other wallets installed: when load_active_monitors has
\* ended, every other wallet with an enabled config has its timer.
C23_OtherTimersInstalled ==
    load.pc = "done" =>
        \A w \in LoadWallets : Schedulable(w) => JobsOf(load.jobs, w) # {}

\* What the call does keep: a failure removes no timer that was installed.
C23_InstalledTimersKept ==
    [][\A w \in LoadWallets : JobsOf(load.jobs, w) # {} => JobsOf(load.jobs', w) # {}]_vars

\* A tick that has its enabled config and the fetched list ends in this step.
FetchedTickEnds(k) ==
    /\ ticks[k].pc \in {"diff", "notify", "persist"}
    /\ ticks'[k].pc = "done"

\* The step appends one snapshot with the whole fetched list for the wallet of
\* tick k and stores last_check = now and next_check = now + interval.
PersistsFetchedList(k) ==
    LET w == ticks[k].wallet
        stamp == minutes'
    IN /\ Len(snapshots'[w]) = Len(snapshots[w]) + 1
       /\ snapshots'[w][Len(snapshots'[w])].opportunities = ticks[k].opportunities
       /\ PreviousOpps(w)' = ticks[k].opportunities
       /\ LastCheck(configs', w) = Some(stamp)
       /\ NextCheck(configs', w) = Some(stamp + ticks[k].config.v.interval_minutes)

C24_Step ==
    \A k \in TickSlots :
        (FetchedTickEnds(k) /\ ticks'[k].outcome # "commit_rejected") => PersistsFetchedList(k)

C24_StepUnlessDiffRaises ==
    \A k \in TickSlots :
        (FetchedTickEnds(k) /\ ticks'[k].outcome \notin {"commit_rejected", "error"})
            => PersistsFetchedList(k)

C24_SnapshotUnlessDiffRaises == [][C24_StepUnlessDiffRaises]_vars

\* The addresses of a list of opportunities or messages, in order.
AddressesOf(l) == [i \in DOMAIN l |-> l[i].address]

\* The notifiable opportunities of the round in ranked order, from the
\* definition of "new or improved".
RankedNotifiable ==
    AddressesOf(ExpectedDiff(notify.previous, notify.current, threshold_multiplier_default))

FirstFive(l) == SubSeq(l, 1, Min(Len(l), 5))

\* C25: a tick sends at most 5 notifications, one message per opportunity,
\* for the first notifiable opportunities in ranked order: all of the first 5
\* when the wallet has its user and no message raises, and none when no
\* opportunity is new or improved.
C25_AtMostFiveRanked ==
    LET sent == AddressesOf(notify.messages)
        due == FirstFive(RankedNotifiable)
    IN /\ Len(sent) <= 5
       /\ Len(sent) <= Len(due)
       /\ sent = SubSeq(due, 1, Len(sent))
       /\ RankedNotifiable = <<>> => sent = <<>>
       /\ (notify.pc = "done" /\ notify.user /\ ~notify.raised) => sent = due

C25_Witness ==
    /\ notify.pc = "done"
    /\ Len(RankedNotifiable) > 5
    /\ Len(notify.messages) = 5
    /\ notify.previous # <<>>

\* The deletion step of a sweep, for wallet w: of the rows the sweep read it
\* keeps exactly the min(n, 10) most recent, it deletes no row written since,
\* and a latest row of the wallet is still there.
SweepKeepsRecent(w) ==
    LET seen == RowsOfWallet(sweep.seen, w)
        before == RowsOfWallet(sweep.table, w)
        after == RowsOfWallet(sweep'.table, w)
        kept == seen \cap after
    IN /\ Cardinality(kept) = Min(Cardinality(seen), 10)
       /\ \A k \in kept, d \in seen \ kept : k.created_at >= d.created_at
       /\ before \ seen \subseteq after
       /\ after \subseteq before
       /\ before # {} =>
             \E latest \in after : \A r \in before : latest.created_at >= r.created_at

\* C26: a cleanup sweep leaves every wallet exactly its min(n, 10) most
\* recent snapshots, whatever the other wallets hold, and never deletes a
\* wallet's latest snapshot, also when ticks insert while it runs.
C26_SweepKeepsTenMostRecent ==
    [][(sweep.pc = "delete" /\ sweep'.pc = "idle") => \A w \in SweepWallets : SweepKeepsRecent(w)]_vars

\* A sweep has deleted the oldest rows of a wallet that got a snapshot while
\* the sweep ran; the other wallet, with fewer rows, lost none.
C26_Witness ==
    /\ sweep.pc = "idle"
    /\ sweep.doomed # {}
    /\ \E w \in SweepWallets :
          /\ Cardinality(RowsOfWallet(sweep.table, w)) = 11
          /\ Cardinality(RowsOfWallet(sweep.seen, w)) = 12
          /\ \E v \in SweepWallets :
                /\ v # w
                /\ RowsOfWallet(sweep.seen, v) # {}
                /\ RowsOfWallet(sweep.seen, v) \subseteq sweep.table

\* The compound scheduler deals with the next position of its loop in this
\* step (and the bound on enqueues of the model does not cut it short).
CompoundChecked ==
    /\ todo["compound"] # <<>>
    /\ todo'["compound"] = Tail(todo["compound"])
    /\ enqueues < MaxEnqueues

\* The step enqueues a compound action for position p.
CompoundEnqueued(p) ==
    /\ enqueues' = enqueues + 1
    /\ last_enqueue' # None
    /\ last_enqueue'.v.position_address = p
    /\ last_enqueue'.v.action_type = "compound"
    /\ \E r \in RowsOf(queue', p) : r.action_type = "compound" /\ r.status = "pending"

\* Position p is due with the threshold its rules configure.
CompoundDue(p, threshold) ==
    LET since == hours - (IF positions[p].last_compound_at # None
                           THEN positions[p].last_compound_at.v ELSE 0)
    IN /\ since >= rules[p].v.compound_frequency_hours
       /\ positions[p].fees_earned_usd >= threshold

C27_Step ==
    CompoundChecked =>
        LET p == Head(todo["compound"])
        IN IF CompoundDue(p, rules[p].v.compound_min_threshold_usd)
           THEN CompoundEnqueued(p)
           ELSE queue' = queue /\ enqueues' = enqueues

\* C27: for an active position with auto-compound enabled the compound
\* scheduler enqueues compound exactly when the hours since its last compound
\* (or since it was opened) reach the configured frequency and its accrued
\* fees reach the configured minimum threshold; otherwise it enqueues nothing.
C27_CompoundIffDue == [][C27_Step]_vars

\* The same with the threshold the scheduler compares with: 10 for a
\* configured threshold of 0.
C27_StepWithDefault ==
    CompoundChecked =>
        LET p == Head(todo["compound"])
            configured == rules[p].v.compound_min_threshold_usd
        IN IF CompoundDue(p, IF configured = 0 THEN 10 ELSE configured)
           THEN CompoundEnqueued(p)
           ELSE queue' = queue /\ enqueues' = enqueues

C27_CompoundIffDueWithDefault == [][C27_StepWithDefault]_vars

\* A worker ends the handler of a compound entry of position p in this step.
CompoundExecuted(p) ==
    \E w \in Workers :
        /\ wpc[w] = "execute"
        /\ wpc'[w] # "execute"
        /\ Head(wrows[w]).position_address = p
        /\ Head(wrows[w]).action_type = "compound"

C28_Step ==
    \A p \in Positions :
        positions'[p].last_compound_at # positions[p].last_compound_at => CompoundExecuted(p)

C29_Step ==
    enqueues' = enqueues + 1 =>
        positions[last_enqueue'.v.position_address].status = "active"

C29_StepOfFreshCycle ==
    (enqueues' = enqueues + 1 /\ positions[last_enqueue'.v.position_address].status # "active")
        => \E j \in ProducerJobs :
              /\ todo[j] # <<>>
              /\ Head(todo[j]) = last_enqueue'.v.position_address

C29_EnqueueForClosedOnlyMidCycle == [][C29_StepOfFreshCycle]_vars

\* C30: when current positions are supplied, no returned opportunity is for a
\* pool the wallet holds a position in, and the fee rate of every returned
\* opportunity is strictly greater than 1.3 times the fee rate of every
\* current position (so of the best one).
C30_ReturnedBeatHeldPools ==
    (analysis.pc = "done" /\ analysis.current_positions # <<>>) =>
        \A i \in DOMAIN analysis.top_opportunities :
            LET opp == analysis.top_opportunities[i]
            IN \A j \in DOMAIN analysis.current_positions :
                  LET held == analysis.current_positions[j]
                      rate == IF held.pool_feeRate30min = None THEN 0
                              ELSE held.pool_feeRate30min.v
                  IN /\ opp.address # held.address
                     /\ opp.feeRate30min * 100 > rate * 130

\* An answer with an opportunity, while a candidate was dropped for being
\* held and another for not beating the best position's rate by 1.3.
C30_Witness ==
    /\ analysis.pc = "done"
    /\ analysis.current_positions # <<>>
    /\ analysis.top_opportunities # <<>>
    /\ \E i, j \in DOMAIN analysis.opportunities :
          /\ analysis.opportunities[i].address = analysis.current_positions[1].address
          /\ analysis.opportunities[i].feeRate30min = 131
          /\ analysis.opportunities[j].address # analysis.current_positions[1].address
          /\ analysis.opportunities[j].feeRate30min = 130
          /\ analysis.current_positions[1].pool_feeRate30min = Some(100)

(***************************************************************************)
(*   Statistics and cache semantics                                        *)
(***************************************************************************)

\* What a cache that tracks no statistics does at the end of a fetch the
\* upstream answered: it stores the timestamp and returns the stored list
\* (_fetch_fresh_data without its lines 176 and 183-188).
StoresAndReturns(t) ==
    /\ last_fetch' = Some(now[t])
    /\ pools_data' = pools_data
    /\ result'[t] = Returned(pools_data)

\* A thread finishes the fetch the upstream answered.
FetchCompletes(t) == pc[t] = "store" /\ pc'[t] = "done"

C31_Step ==
    \A t \in Threads : FetchCompletes(t) => StoresAndReturns(t)

\* C31: statistics bookkeeping does not affect cache semantics: every fetch the
\* upstream answered, an answer with no pools included, ends as in a cache
\* that tracks no statistics: the filtered list and the timestamp are stored
\* and the list is returned, no error is raised.
C31_StatsLeaveSemantics == [][C31_Step]_vars

C31_StepWithPools ==
    \A t \in Threads :
        FetchCompletes(t) /\ filtered[t].has_stats => StoresAndReturns(t)

\* C31 for upstream answers with at least one pool: there the statistics
\* leave the result and the stored state alone.
C31_StatsLeaveSemanticsWithPools == [][C31_StepWithPools]_vars

\* The diff step of tick k is taken in this step.
DiffStepTaken(k) == ticks[k].pc = "diff" /\ ticks'[k].pc # "diff"

\* The previous snapshot of the wallet of tick k holds a pool with fee rate 0.
PreviousHasZeroRate(k) ==
    \E i \in DOMAIN PreviousOpps(ticks[k].wallet) :
        PreviousOpps(ticks[k].wallet)[i].feeRate30min = 0

C32_Step ==
    \A k \in TickSlots : DiffStepTaken(k) => ticks'[k].pc \in {"notify", "persist"}

\* C32: the diff step never fails a tick: whatever the previous snapshot and
\* the current list (fee rates >= 0, a pool going from rate 0 to a positive
\* rate included), _find_new_opportunities returns and the tick goes on to
\* its notifications or to persisting its snapshot.
C32_DiffNeverFailsTick == [][C32_Step]_vars

C32_StepUnlessZeroRate ==
    \A k \in TickSlots :
        DiffStepTaken(k) /\ ~PreviousHasZeroRate(k) => ticks'[k].pc \in {"notify", "persist"}

\* C32 for previous snapshots without a pool of fee rate 0.
C32_DiffNeverFailsUnlessZeroRate == [][C32_StepUnlessZeroRate]_vars

\* The opportunities (pool and fee rate) tick k has handed to the bot and had
\* delivered, while the tick is between its notifications and its commit.
NotifiedBy(k) ==
    IF ticks[k].pc = "persist" /\ ~ticks[k].notify_failed
    THEN {[address |-> ticks[k].new_opportunities[i].address,
           feeRate30min |-> ticks[k].new_opportunities[i].feeRate30min] :
              i \in 1..ticks[k].sent}
    ELSE {}

DurablyEnabled(w) == configs[w] # None /\ configs[w].v.enabled

\* C34: whatever start, stop, load_active_monitors, disconnect and /stop
\* calls have run, once they have returned a monitor timer is armed for a
\* wallet only if a durable config of the wallet exists with enabled = true.
C34_TimerOnlyForEnabledConfig ==
    api.pc = "idle" =>
        \A w \in Wallets : JobsOf(scheduler_jobs, w) # {} => DurablyEnabled(w)

\* The call has answered False.
StartReportedFailure == starting.pc = "returned" /\ starting.ret = "False"

\* C35: if start_monitoring reports failure, the durable config of the wallet
\* is as it was before the call; a failure while the timer is installed does
\* not leave the config persisted with enabled = true and no timer armed.
C35_FailedStartLeavesConfig ==
    StartReportedFailure => starting.config = starting.before

\* C35 for the failures before the timer is installed (no linked user, a
\* rejected commit).
C35_FailedStartLeavesConfigUnlessAddJobRaises ==
    (StartReportedFailure /\ ~AddJobRaises(starting.interval))
        => starting.config = starting.before

\* Worker w ends the handling of its current row in this step and leaves
\* the entry of the row's position marked completed.
CompletesEntry(w) ==
    /\ wpc[w] = "execute"
    /\ wrows'[w] # wrows[w]
    /\ \E r \in RowsOf(queue', Head(wrows[w]).position_address) : r.status = "completed"

C36_Step ==
    \A w \in Workers :
        CompletesEntry(w) =>
            LET p == Head(wrows[w]).position_address
            IN /\ claim_count[p] >= 1
               /\ \A r \in RowsOf(queue', p) : r.action_type = Head(wrows[w]).action_type

BecomesClosed(p) == positions[p].status = "active" /\ positions'[p].status = "closed"

C37_Step ==
    \A p \in Positions :
        BecomesClosed(p) => \A r \in RowsOf(queue', p) : r.status = "completed"

\* C37: a position's status becomes closed only together with its queue entry
\* being marked completed; when the close handler fails at any step, also
\* after the execution provider has returned, the position stays active in
\* the store and the entry is marked failed.
C37_ClosedOnlyWithCompleted == [][C37_Step]_vars

C38_NoneProcessingUnlessRejected ==
    (pass.pc = "done" /\ \A i \in DOMAIN pass.handled :
                            pass.handled[i].outcome # "statement_rejected")
        => \A r \in pass.queue : r.status # "processing"

C39_Step ==
    enqueues' = enqueues + 1 => automation # "disabled"

C39_StepOfMonitor ==
    (enqueues' = enqueues + 1 /\ last_enqueue'.v.action_type # "compound")
        => automation # "disabled"

\* C39 for the position monitor alone (take_profit, stop_loss, rebalance).
C39_MonitorEnqueuesNothingWhileDisabled == [][C39_StepOfMonitor]_vars

\* C40: a pool is recorded as notified for the wallet (and suppressed for the
\* next 30 minutes) only if it was included in a notification sent to the
\* wallet in the same tick: high-fee pools beyond the top 5 of a tick and the
\* pools of a tick whose send failed are not recorded.
C40_RecordedOnlyIfSent ==
    degen.tick.pc = "done" => degen.tick.recorded \subseteq degen.tick.sent

\* What the tick does record: new pools of the tick only.
C40_RecordedOnlyNewPools ==
    degen.tick.pc = "done" =>
        degen.tick.recorded \subseteq {degen.tick.new_pools[i] : i \in DOMAIN degen.tick.new_pools}

====
